---- MODULE Spec2Model ----
(***************************************************************************)
(* Authentication / token lifecycle of halolight-api-bun:                  *)
(* AuthService (register, login, refresh, logout, logoutAll), the JWT      *)
(* helpers, the users / refresh_tokens / user_roles tables with their      *)
(* constraints, and the administrative user routes.                        *)
(***************************************************************************)
EXTENDS Integers, FiniteSets, Sequences, TLC

\* ------------------------------------------------------------------ bounds
MaxClock == 3     \* the clock runs over the seconds 1..MaxClock
MaxUsers == 2     \* user rows ever created by register (ids 1..MaxUsers; 0 is the seeded admin)
MaxRows == 3      \* refresh-token rows ever inserted (row ids 1..MaxRows)
MaxAdminOps == 1  \* administrative writes (PUT / DELETE /users/:id) ever applied
MaxPerms == 2     \* permission rows ever created by POST /permissions
MaxRoleOps == 2   \* calls of UserService.assignRole / removeRole made outside register
MaxDocs == 3      \* rows of the documents table and of the teams table

\* ------------------------------------------------------------- input sets
Procs     == {1, 2}                \* request slots: requests served concurrently
AdminEmail == "admin@x"
Emails    == {AdminEmail, "a@x", "b@x"}
Usernames == {"alice", "bob"}
SeedPassword == "123456"
Passwords == {SeedPassword, "password123"}
Secrets   == {"dev-jwt-secret", "dev-refresh-secret"}
AttackerKey == "attacker-key"
UserIds   == 0..MaxUsers
Times     == 1..MaxClock

VARIABLES
    env,        \* process environment: secrets and lifetime strings
    now,        \* wall clock, whole seconds (Math.floor(Date.now() / 1000))
    users,      \* table users: id -> row
    userRoles,  \* table user_roles: set of <<userId, roleName>>
    roles,      \* table roles: set of role names
    tokens,     \* table refresh_tokens: set of rows
    nextUserId, \* fresh ids handed out by crypto.randomUUID() for users
    nextRowId,  \* fresh ids handed out by crypto.randomUUID() for token rows
    proc,       \* per request in flight: position and locals of register / refresh
    resp,       \* the response sent by the step just taken (NoResp: none)
    adminOps,   \* administrative writes applied so far
    issued,     \* every token string handed to a client so far
    registered, \* history: <<email, username>> of every successful registration
    consumed,   \* history: refresh-token strings a successful refresh has redeemed
    revoked,    \* history: refresh-token strings issued to u before a completed logoutAll(u)
    permissions,     \* table permissions: set of rows [id, action, resource]
    rolePermissions, \* table role_permissions: set of <<roleName, permissionId>>
    nextPermId,      \* fresh ids handed out by crypto.randomUUID() for permissions
    documents,       \* table documents: set of rows [id, ownerId]
    teams            \* table teams: set of rows [id, ownerId]

acl == <<permissions, rolePermissions, nextPermId>>
content == <<documents, teams>>

vars == <<env, now, users, userRoles, roles, tokens, nextUserId, nextRowId,
          proc, resp, adminOps, issued, registered, consumed, revoked, acl, content>>

db == <<users, userRoles, roles, tokens>>

\* --------------------------------------------------- duration strings, JWT
\* A string is modelled as the sequence of its characters.
Digits == {"0", "1", "2", "3", "4", "5", "6", "7", "8", "9"}

DigitVal(c) ==
    CASE c = "0" -> 0 [] c = "1" -> 1 [] c = "2" -> 2 [] c = "3" -> 3 [] c = "4" -> 4
      [] c = "5" -> 5 [] c = "6" -> 6 [] c = "7" -> 7 [] c = "8" -> 8 [] c = "9" -> 9

RECURSIVE ParseInt(_)
ParseInt(s) ==
    IF Len(s) = 0 THEN 0
    ELSE ParseInt(SubSeq(s, 1, Len(s) - 1)) * 10 + DigitVal(s[Len(s)])

\* expiresIn.match(/^(\d+)([smhd])$/)
MatchesDuration(s) ==
    /\ Len(s) >= 2
    /\ \A i \in 1..(Len(s) - 1) : s[i] \in Digits
    /\ s[Len(s)] \in {"s", "m", "h", "d"}

Multiplier(u) ==
    CASE u = "s" -> 1 [] u = "m" -> 60 [] u = "h" -> 3600 [] u = "d" -> 86400

\* parseExpiresIn: defined where the string matches; the code throws otherwise.
ParseExpiresIn(s) ==
    ParseInt(SubSeq(s, 1, Len(s) - 1)) * Multiplier(s[Len(s)])

ParseExpirationValueOnly(s) ==
    IF ~MatchesDuration(s) THEN 900
    ELSE ParseInt(SubSeq(s, 1, Len(s) - 1))

\* parseExpirationToSeconds of the auth routes: 900 where the string does not match.
ParseExpirationToSeconds(s) ==
    IF ~MatchesDuration(s) THEN 900
    ELSE LET value == ParseInt(SubSeq(s, 1, Len(s) - 1))
             unit == s[Len(s)]
         IN CASE unit = "s" -> value
              [] unit = "m" -> value * 60
              [] unit = "h" -> value * 3600
              [] unit = "d" -> value * 86400

\* The environment of the running process.  The lifetimes are short so that
\* tokens expire within the clock bound (the defaults are 15m and 7d).  RUNTIME
\* is the JavaScript runtime the process is (Bun, or Node.js / Workers).
DefaultEnv ==
    [JWT_SECRET |-> "dev-jwt-secret",
     JWT_REFRESH_SECRET |-> "dev-refresh-secret",
     JWT_EXPIRES_IN |-> <<"1", "s">>,
     JWT_REFRESH_EXPIRES_IN |-> <<"2", "s">>,
     RUNTIME |-> "bun"]

getJwtSecret == env.JWT_SECRET
getRefreshSecret == env.JWT_REFRESH_SECRET

\* hono/jwt sign with HS256: a deterministic function of payload and secret.
Sign(payload, secret) == [payload |-> payload, sig |-> secret]

\* hono/jwt verify: signature, then exp (expired when exp <= now), then iat.
JwtVerifies(token, secret, t) ==
    /\ token.sig = secret
    /\ ~(token.payload.exp # 0 /\ token.payload.exp <= t)
    /\ ~(token.payload.iat # 0 /\ t < token.payload.iat)

GenerateAccessToken(userId, email, t) ==
    Sign([userId |-> userId, email |-> email, type |-> "access",
          iat |-> t, exp |-> t + ParseExpiresIn(env.JWT_EXPIRES_IN)], getJwtSecret)

GenerateRefreshToken(userId, t) ==
    [token |-> Sign([userId |-> userId, type |-> "refresh",
                     iat |-> t, exp |-> t + ParseExpiresIn(env.JWT_REFRESH_EXPIRES_IN)],
                    getRefreshSecret),
     expiresAt |-> t + ParseExpiresIn(env.JWT_REFRESH_EXPIRES_IN)]

VerifyAccessTokenAnyKind(token, t) ==
    IF JwtVerifies(token, getJwtSecret, t)
    THEN [ok |-> TRUE, payload |-> token.payload]
    ELSE [ok |-> FALSE, message |-> "Invalid or expired access token"]

VerifyAccessToken(token, t) ==
    IF JwtVerifies(token, getJwtSecret, t) /\ token.payload.type = "access"
    THEN [ok |-> TRUE, payload |-> token.payload]
    ELSE [ok |-> FALSE, message |-> "Invalid or expired access token"]

VerifyRefreshToken(token, t) ==
    IF JwtVerifies(token, getRefreshSecret, t) /\ token.payload.type = "refresh"
    THEN [ok |-> TRUE, payload |-> token.payload]
    ELSE [ok |-> FALSE, message |-> "Invalid or expired refresh token"]

\* A refresh token signed with a key the server does not hold, and the
\* absence of a token in a response.
ForgedToken ==
    [payload |-> [userId |-> 1, type |-> "refresh", iat |-> 1, exp |-> MaxClock + 1],
     sig |-> AttackerKey]
NoToken == [payload |-> [userId |-> 0, type |-> "none", iat |-> 0, exp |-> 0], sig |-> "none"]

\* --------------------------------------------------------------- passwords
\* typeof Bun !== 'undefined'
isBun == env.RUNTIME = "bun"

\* bcrypt keys the cipher with at most this many bytes of the password.
BcryptMaxBytes == 72

\* What bcrypt is keyed with.  Bun.password pre-hashes a password longer than
\* the limit with SHA-512; bcryptjs uses the first bytes up to the limit.
BcryptKey(password) ==
    IF Len(password) <= BcryptMaxBytes THEN password
    ELSE IF isBun THEN "sha512:" \o password
    ELSE SubSeq(password, 1, BcryptMaxBytes)

\* hashPassword: bcrypt, cost 10.  The hash embeds what verification needs
\* and is modelled without collisions between different keys.
HashPassword(p) == "$2b$10$" \o BcryptKey(p)

\* verifyPassword: hash the candidate the same way and compare.
VerifyPassword(p, h) == h = "$2b$10$" \o BcryptKey(p)

\* ---------------------------------------------------------------- database
DbUniqueMsg == "duplicate key value violates unique constraint"
DbForeignKeyMsg == "insert or update violates foreign key constraint"

NewUserRow(email, username, password) ==
    [email |-> email, username |-> username, password |-> password,
     status |-> "ACTIVE", lastLoginAt |-> 0]

EmailExists(email) == \E id \in DOMAIN users : users[id].email = email
UsernameExists(username) == \E id \in DOMAIN users : users[id].username = username

\* select ... where email = ? limit 1 (the caller has checked that a row exists)
FindByEmail(email) == CHOOSE id \in DOMAIN users : users[id].email = email

UsersUnconstrained(id, row) == FALSE

\* users.email and users.username are declared unique(): the row `row`, written
\* at id `id`, is refused when another row holds its email or its username.
UsersUniqueViolation(id, row) ==
    \E other \in DOMAIN users \ {id} :
        \/ users[other].email = row.email
        \/ users[other].username = row.username

GetUserRolesAsSeeded(userId) == {r \in roles : <<userId, r>> \in {<<0, "admin">>, <<1, "user">>}}

\* select roles.name from user_roles inner join roles where userId = ?
GetUserRoles(userId) == {r \in roles : <<userId, r>> \in userRoles}

PublicUserWithPassword(row) == row

\* publicUserSchema = selectUserSchema.omit({ password: true })
PublicUser(row) == [f \in DOMAIN row \ {"password"} |-> row[f]]

PermissionNameActionFirst(row) == row.action \o ":" \o row.resource

\* `${p.resource}:${p.action}`
PermissionName(row) == row.resource \o ":" \o row.action

\* role_permissions inner join permissions where roleId in (ids of roleNames)
PermissionsOfRoles(roleNames) ==
    {PermissionName(row) :
        row \in {q \in permissions : \E r \in roleNames : <<r, q.id>> \in rolePermissions}}

\* { ...publicUser, roles: roleNames, permissions: permissionNames }
UserWithRoles(row, roleNames) ==
    PublicUser(row) @@ [roles |-> roleNames, permissions |-> PermissionsOfRoles(roleNames)]

\* UserService.findByIdWithRoles, for an id that has a row
FindByIdWithRoles(id) == UserWithRoles(users[id], GetUserRoles(id))

\* refresh_tokens.token is unique(); refresh_tokens.userId references users.id.
TokenUniqueViolation(row) == \E r \in tokens : r.token = row.token
TokenForeignKeyUnchecked(row) == FALSE

TokenForeignKeyViolation(row) == row.userId \notin DOMAIN users

\* --------------------------------------------------------------- responses
NoReq == [none |-> TRUE]
NoFailure == ""

\* What a step answers.  op, status, code, message, the two tokens, expiresIn,
\* data (the user objects of the body) and meta are what the client sees; req,
\* note and flags record which request and which branch of the handler
\* produced the answer.
NoMeta == [page |-> 0, pageSize |-> 0, total |-> 0, totalPages |-> 0]

NoResp == [op |-> "none", status |-> 0, code |-> "", message |-> "", req |-> NoReq,
           accessToken |-> NoToken, refreshToken |-> NoToken, note |-> "", flags |-> {},
           expiresIn |-> 0, data |-> {}, meta |-> NoMeta]

\* successResponse(c, data, status)
Success(op, status, message, req, access, refresh, note, flags) ==
    [op |-> op, status |-> status, code |-> "OK", message |-> message, req |-> req,
     accessToken |-> access, refreshToken |-> refresh, note |-> note, flags |-> flags,
     expiresIn |-> 0, data |-> {}, meta |-> NoMeta]

\* errorResponse(c, message, status, code)
Failure(op, status, code, message, note) ==
    [op |-> op, status |-> status, code |-> code, message |-> message, req |-> NoReq,
     accessToken |-> NoToken, refreshToken |-> NoToken, note |-> note, flags |-> {},
     expiresIn |-> 0, data |-> {}, meta |-> NoMeta]

\* The body of a successful register, login or refresh of the auth routes:
\* { user, token, expiresIn, refreshToken } (refresh returns no user).
TokenResponse(op, status, req, userObjects, access, refresh, flags) ==
    [Success(op, status, "", req, access, refresh, "", flags) EXCEPT
        !.expiresIn = ParseExpirationToSeconds(env.JWT_EXPIRES_IN),
        !.data = userObjects]

\* ------------------------------------------------------------------- state
IdleProc == [pc |-> "idle", req |-> NoReq, uid |-> 0, row |-> 0, email |-> "", flags |-> {}]

InFlight(p) == proc[p].pc # "idle"

\* Rows and users that requests in flight may still insert.
PendingRows ==
    Cardinality({p \in Procs : proc[p].pc \in {"reg_create", "reg_finish", "ref_delete", "ref_insert"}})
PendingUsers == Cardinality({p \in Procs : proc[p].pc = "reg_create"})
RowBudget == (nextRowId - 1) + PendingRows < MaxRows
UserBudget == (nextUserId - 1) + PendingUsers < MaxUsers

\* seed.ts: the wildcard permission goes to admin, the read permissions to user.
SeedPermissions ==
    {[id |-> 1, action |-> "*", resource |-> "*"],
     [id |-> 2, action |-> "read", resource |-> "documents"]}
SeedRolePermissions == {<<"admin", 1>>, <<"user", 2>>}

SeedUserRoles == {<<0, "admin">>, <<1, "user">>}

\* The accounts after the seed script: the admin account with the admin role.
SeedAdmin ==
    [email |-> AdminEmail, username |-> "admin", password |-> HashPassword(SeedPassword),
     status |-> "ACTIVE", lastLoginAt |-> 0]

\* One of the seeded ordinary accounts, which hold the role user.
SeedUser ==
    [email |-> "b@x", username |-> "bob", password |-> HashPassword(SeedPassword),
     status |-> "ACTIVE", lastLoginAt |-> 0]

\* Everything but the accounts: the seeded roles and permissions, no request
\* in flight, the clock at its first second.
InitOther ==
    /\ now = 1
    /\ roles = {"admin", "user"}
    /\ tokens = {}
    /\ nextRowId = 1
    /\ proc = [p \in Procs |-> IdleProc]
    /\ resp = NoResp
    /\ adminOps = 0
    /\ issued = {}
    /\ registered = {}
    /\ consumed = {}
    /\ revoked = {}
    /\ permissions = SeedPermissions
    /\ rolePermissions = SeedRolePermissions
    /\ nextPermId = 3
    /\ documents = {}
    /\ teams = {}

\* The seeded database with the admin account alone.
InitData ==
    /\ users = (0 :> SeedAdmin)
    /\ userRoles = {<<0, "admin">>}
    /\ nextUserId = 1
    /\ InitOther

Init ==
    /\ env = DefaultEnv
    /\ InitData

\* The seeded database with the admin account and an ordinary account.
InitSeeded ==
    /\ env = DefaultEnv
    /\ users = (0 :> SeedAdmin) @@ (1 :> SeedUser)
    /\ userRoles = SeedUserRoles
    /\ nextUserId = 2
    /\ InitOther

\* The clock advances by one second.
Tick ==
    /\ now < MaxClock
    /\ now' = now + 1
    /\ resp' = NoResp
    /\ UNCHANGED <<env, acl, content, users, userRoles, roles, tokens, nextUserId, nextRowId,
                   proc, adminOps, issued, registered, consumed, revoked>>

\* ------------------------------------------------------------ token issue
\* generateAccessToken then generateRefreshToken: the message of the error
\* parseExpiresIn throws on a lifetime string it cannot parse.
InvalidExpiresMsg == "Invalid expires format. Use format: 1s, 1m, 1h, 1d"

IssueFailure ==
    IF MatchesDuration(env.JWT_EXPIRES_IN) /\ MatchesDuration(env.JWT_REFRESH_EXPIRES_IN)
    THEN NoFailure
    ELSE InvalidExpiresMsg

\* storeRefreshToken / the insert of refresh: the message of the database error.
StoreFailure(row) ==
    IF TokenForeignKeyViolation(row) THEN DbForeignKeyMsg
    ELSE IF TokenUniqueViolation(row) THEN DbUniqueMsg
    ELSE NoFailure

NewTokenRow(userId, t) ==
    [id |-> nextRowId, userId |-> userId,
     token |-> GenerateRefreshToken(userId, t).token,
     expiresAt |-> GenerateRefreshToken(userId, t).expiresAt]

\* ------------------------------------------------------------------- login
LoginBranchAnyStatus(email, password) ==
    IF ~EmailExists(email) THEN "unknown-email"
    ELSE IF ~VerifyPassword(password, users[FindByEmail(email)].password) THEN "wrong-password"
    ELSE NoFailure

\* AuthService.login up to the status check: the branch that throws.
LoginBranch(email, password) ==
    IF ~EmailExists(email) THEN "unknown-email"
    ELSE IF ~VerifyPassword(password, users[FindByEmail(email)].password) THEN "wrong-password"
    ELSE IF users[FindByEmail(email)].status # "ACTIVE" THEN "inactive"
    ELSE NoFailure

LoginMessageTelling(branch) ==
    CASE branch = "unknown-email" -> "Invalid email or password"
      [] branch = "wrong-password" -> "Invalid password"
      [] branch = "inactive" -> "Account is deactivated or suspended"

\* The message of the error each branch throws.
LoginMessage(branch) ==
    CASE branch = "unknown-email" -> "Invalid email or password"
      [] branch = "wrong-password" -> "Invalid email or password"
      [] branch = "inactive" -> "Account is deactivated or suspended"

\* POST /auth/login
Login(email, password) ==
    LET early == LoginBranch(email, password)
    IN
    /\ UNCHANGED <<env, acl, content, now, userRoles, roles, nextUserId, proc, adminOps,
                   registered, consumed, revoked>>
    /\ IF early # NoFailure
       THEN /\ resp' = Failure("login", 401, "LOGIN_FAILED", LoginMessage(early), early)
            /\ UNCHANGED <<users, tokens, nextRowId, issued>>
       ELSE LET id == FindByEmail(email)
                row == NewTokenRow(id, now)
                access == GenerateAccessToken(id, users[id].email, now)
                late == IF IssueFailure # NoFailure THEN IssueFailure ELSE StoreFailure(row)
            IN
            /\ RowBudget
            /\ users' = [users EXCEPT ![id].lastLoginAt = now]
            /\ IF late # NoFailure
               THEN /\ resp' = Failure("login", 401, "LOGIN_FAILED", late, "store-failed")
                    /\ UNCHANGED <<tokens, nextRowId, issued>>
               ELSE /\ tokens' = tokens \cup {row}
                    /\ nextRowId' = nextRowId + 1
                    /\ issued' = issued \cup {access, row.token}
                    /\ resp' = TokenResponse("login", 200, [email |-> email, password |-> password],
                                             {UserWithRoles(users'[id], GetUserRoles(id))},
                                             access, row.token, {})

\* ------------------------------------------------------------------ logout
LogoutRowsOfOwner(rows, token) == {r \in rows : r.userId # token.payload.userId}

\* delete from refresh_tokens where token = ?
LogoutRows(rows, token) == {r \in rows : r.token # token}

\* POST /auth/logout
Logout(token) ==
    /\ tokens' = LogoutRows(tokens, token)
    /\ resp' = Success("logout", 200, "Successfully logged out", NoReq, NoToken, NoToken,
                       IF tokens' = tokens THEN "no-row" ELSE "deleted", {})
    /\ UNCHANGED <<env, acl, content, now, users, userRoles, roles, nextUserId, nextRowId,
                   proc, adminOps, issued, registered, consumed, revoked>>

\* -------------------------------------------------------------- middleware
AuthMiddlewareWithSession(token) ==
    IF VerifyAccessToken(token, now).ok /\ \E r \in tokens : r.userId = token.payload.userId
    THEN [ok |-> TRUE, userId |-> token.payload.userId,
          userRoles |-> GetUserRoles(token.payload.userId)]
    ELSE [ok |-> FALSE, userId |-> 0, userRoles |-> {}]

\* authMiddleware: verify the bearer token, load the role names of its user.
AuthMiddleware(token) ==
    IF VerifyAccessToken(token, now).ok
    THEN [ok |-> TRUE, userId |-> token.payload.userId,
          userRoles |-> GetUserRoles(token.payload.userId)]
    ELSE [ok |-> FALSE, userId |-> 0, userRoles |-> {}]

\* An Authorization header value is a sequence of pieces: a word, a space, or
\* a token string.  An absent header is [present |-> FALSE].
Word(text) == [kind |-> "word", text |-> text, token |-> NoToken]
Space == [kind |-> "space", text |-> " ", token |-> NoToken]
TokenString(token) == [kind |-> "token", text |-> "", token |-> token]

NoHeader == [present |-> FALSE, value |-> <<>>]
Header(value) == [present |-> TRUE, value |-> value]

\* authHeader.split(' '): the pieces between the spaces, empty ones included
RECURSIVE Split(_)
Split(value) ==
    IF \A i \in 1..Len(value) : value[i] # Space THEN <<value>>
    ELSE LET i == CHOOSE k \in 1..Len(value) :
                      value[k] = Space /\ \A j \in 1..(k - 1) : value[j] # Space
         IN <<SubSeq(value, 1, i - 1)>> \o Split(SubSeq(value, i + 1, Len(value)))

ExtractTokenAnyScheme(header) ==
    IF ~header.present \/ header.value = <<>> THEN <<>>
    ELSE IF Len(Split(header.value)) # 2 THEN <<>>
    ELSE Split(header.value)[2]

\* extractToken: the second piece of `Bearer <token>`; the empty sequence
\* stands for null and for the empty string, which `!token` treats alike.
ExtractToken(header) ==
    IF ~header.present \/ header.value = <<>> THEN <<>>
    ELSE IF Len(Split(header.value)) # 2 \/ Split(header.value)[1] # <<Word("Bearer")>> THEN <<>>
    ELSE Split(header.value)[2]

\* verifyAccessToken on what extractToken returned: a string that is not a
\* token the server signed does not verify.
VerifyExtracted(extracted) ==
    /\ Len(extracted) = 1
    /\ extracted[1].kind = "token"
    /\ VerifyAccessToken(extracted[1].token, now).ok

\* authMiddleware on the Authorization header: 401 UNAUTHORIZED without a
\* token, 401 INVALID_TOKEN when verifyAccessToken throws, else the identity
\* is attached to the context and next() is called.
AuthMiddlewareOnHeader(header) ==
    IF ExtractToken(header) = <<>>
    THEN [ok |-> FALSE, code |-> "UNAUTHORIZED", message |-> "Authentication required",
          userId |-> 0, userRoles |-> {}]
    ELSE IF ~VerifyExtracted(ExtractToken(header))
    THEN [ok |-> FALSE, code |-> "INVALID_TOKEN", message |-> "Invalid or expired access token",
          userId |-> 0, userRoles |-> {}]
    ELSE [ok |-> TRUE, code |-> "", message |-> "",
          userId |-> ExtractToken(header)[1].token.payload.userId,
          userRoles |-> GetUserRoles(ExtractToken(header)[1].token.payload.userId)]

\* requireRole(...allowedRoles)
RequireRole(auth, allowedRoles) == auth.userRoles \cap allowedRoles # {}

\* -------------------------------------------------------------- logout-all
\* delete from refresh_tokens where userId = ?
LogoutAllRows(rows, userId) == {r \in rows : r.userId # userId}

IssuedRefreshTokensOf(userId) ==
    {t \in issued : t.payload.type = "refresh" /\ t.payload.userId = userId}

\* POST /auth/logout-all, behind authMiddleware
LogoutAll(bearer) ==
    LET auth == AuthMiddleware(bearer)
    IN
    /\ UNCHANGED <<env, acl, content, now, users, userRoles, roles, nextUserId, nextRowId,
                   proc, adminOps, issued, registered, consumed>>
    /\ IF ~auth.ok
       THEN /\ resp' = Failure("logout-all", 401, "INVALID_TOKEN",
                               VerifyAccessToken(bearer, now).message, "")
            /\ UNCHANGED <<tokens, revoked>>
       ELSE /\ tokens' = LogoutAllRows(tokens, auth.userId)
            /\ revoked' = revoked \cup IssuedRefreshTokensOf(auth.userId)
            /\ resp' = Success("logout-all", 200, "Successfully logged out from all devices",
                               [userId |-> auth.userId], NoToken, NoToken, "", {})

\* ---------------------------------------------------------------- register
Started(pc, req) == [IdleProc EXCEPT !.pc = pc, !.req = req]

\* A new request takes the lowest free slot (requests are anonymous).
FreeSlot(p) == ~InFlight(p) /\ \A q \in Procs : q < p => InFlight(q)

RegisterConflictEmailOnly(data) ==
    IF EmailExists(data.email) THEN "Email already registered"
    ELSE NoFailure

\* AuthService.register, lines 39-49: the branch the two checks take.
RegisterConflict(data) ==
    IF EmailExists(data.email) THEN "Email already registered"
    ELSE IF UsernameExists(data.username) THEN "Username already taken"
    ELSE NoFailure

\* What the history says of a registration at the moment the call is made.
RegisterFlags(data) ==
    IF \E pair \in registered : pair[1] = data.email \/ pair[2] = data.username
    THEN {"registered-before"}
    ELSE {}

\* lines 39-49: the email check and the username check.
RegisterStart(p, data) ==
    /\ FreeSlot(p)
    /\ UNCHANGED <<env, acl, content, now, users, userRoles, roles, tokens, nextUserId, nextRowId,
                   adminOps, issued, registered, consumed, revoked>>
    /\ IF RegisterConflict(data) # NoFailure
       THEN /\ resp' = Failure("register", 400, "REGISTRATION_FAILED",
                               RegisterConflict(data), "conflict")
            /\ UNCHANGED proc
       ELSE /\ UserBudget
            /\ RowBudget
            /\ proc' = [proc EXCEPT ![p] =
                    [Started("reg_create", data) EXCEPT !.flags = RegisterFlags(data)]]
            /\ resp' = NoResp

\* lines 51-58 and UserService.create: hash the password, insert the user row.
RegisterCreate(p) ==
    LET data == proc[p].req
        row == NewUserRow(data.email, data.username, HashPassword(data.password))
    IN
    /\ proc[p].pc = "reg_create"
    /\ UNCHANGED <<env, acl, content, now, userRoles, roles, tokens, nextRowId,
                   adminOps, issued, registered, consumed, revoked>>
    /\ IF UsersUniqueViolation(nextUserId, row)
       THEN /\ proc' = [proc EXCEPT ![p] = IdleProc]
            /\ resp' = Failure("register", 400, "REGISTRATION_FAILED", DbUniqueMsg,
                               "create-failed")
            /\ UNCHANGED <<users, nextUserId>>
       ELSE /\ users' = (nextUserId :> row) @@ users
            /\ nextUserId' = nextUserId + 1
            /\ proc' = [proc EXCEPT ![p].pc = "reg_finish", ![p].uid = nextUserId]
            /\ resp' = NoResp

\* lines 60-79, after the user row is in: the error thrown, if any.  The
\* default role is assigned when the role exists (a foreign key of user_roles
\* refers to the user), the user is read back, the tokens are issued and stored.
RegisterFinishFailure(userId, row) ==
    IF "user" \in roles /\ userId \notin DOMAIN users THEN DbForeignKeyMsg
    ELSE IF userId \notin DOMAIN users THEN "Failed to create user"
    ELSE IF IssueFailure # NoFailure THEN IssueFailure
    ELSE StoreFailure(row)

\* lines 60-79: assign the default role, read the user back, issue and store.
RegisterFinish(p) ==
    LET data == proc[p].req
        row == NewTokenRow(proc[p].uid, now)
        access == GenerateAccessToken(proc[p].uid, data.email, now)
        failure == RegisterFinishFailure(proc[p].uid, row)
    IN
    /\ proc[p].pc = "reg_finish"
    /\ proc' = [proc EXCEPT ![p] = IdleProc]
    /\ UNCHANGED <<env, acl, content, now, users, roles, nextUserId, adminOps, consumed, revoked>>
    /\ userRoles' = IF "user" \in roles /\ proc[p].uid \in DOMAIN users
                    THEN userRoles \cup {<<proc[p].uid, "user">>}
                    ELSE userRoles
    /\ IF failure # NoFailure
       THEN /\ resp' = Failure("register", 400, "REGISTRATION_FAILED", failure, "finish-failed")
            /\ UNCHANGED <<tokens, nextRowId, issued, registered>>
       ELSE /\ tokens' = tokens \cup {row}
            /\ nextRowId' = nextRowId + 1
            /\ issued' = issued \cup {access, row.token}
            /\ registered' = registered \cup {<<data.email, data.username>>}
            /\ resp' = TokenResponse("register", 201, data,
                                     {UserWithRoles(users[proc[p].uid],
                                                    {r \in roles : <<proc[p].uid, r>> \in userRoles'})},
                                     access, row.token, proc[p].flags)

\* ----------------------------------------------------------------- refresh
\* The select of refresh, lines 132-142.
SelectStoredToken(token, userId, t) ==
    {r \in tokens : r.token = token /\ r.userId = userId /\ r.expiresAt > t}

\* What the histories say of a token at the moment a refresh call submits it.
FlagsOf(token) ==
    {f \in {"consumed", "revoked"} :
        \/ f = "consumed" /\ token \in consumed
        \/ f = "revoked" /\ token \in revoked}

RefreshBranchAnyStatus(token) ==
    IF ~VerifyRefreshToken(token, now).ok THEN "bad-jwt"
    ELSE IF SelectStoredToken(token, token.payload.userId, now) = {} THEN "no-row"
    ELSE IF token.payload.userId \notin DOMAIN users THEN "no-user"
    ELSE NoFailure

\* AuthService.refresh, lines 128-156: the branch that throws before the delete.
RefreshBranch(token) ==
    IF ~VerifyRefreshToken(token, now).ok THEN "bad-jwt"
    ELSE IF SelectStoredToken(token, token.payload.userId, now) = {} THEN "no-row"
    ELSE IF token.payload.userId \notin DOMAIN users THEN "no-user"
    ELSE IF users[token.payload.userId].status # "ACTIVE" THEN "inactive"
    ELSE NoFailure

RefreshMessage(branch) ==
    CASE branch = "bad-jwt" -> "Invalid or expired refresh token"
      [] branch = "no-row" -> "Invalid or expired refresh token"
      [] branch = "no-user" -> "User not found"
      [] branch = "inactive" -> "Account is deactivated or suspended"

\* lines 128-156: verify the JWT, look the row up, check the user.
RefreshStart(p, token) ==
    LET branch == RefreshBranch(token)
    IN
    /\ FreeSlot(p)
    /\ UNCHANGED <<env, acl, content, now, users, userRoles, roles, tokens, nextUserId, nextRowId,
                   adminOps, issued, registered, consumed, revoked>>
    /\ IF branch # NoFailure
       THEN /\ resp' = Failure("refresh", 401, "REFRESH_FAILED", RefreshMessage(branch), branch)
            /\ UNCHANGED proc
       ELSE /\ RowBudget
            /\ proc' = [proc EXCEPT ![p] =
                    [Started("ref_delete", token) EXCEPT
                        !.uid = token.payload.userId,
                        !.row = (CHOOSE r \in SelectStoredToken(token, token.payload.userId, now) : TRUE).id,
                        !.email = users[token.payload.userId].email,
                        !.flags = FlagsOf(token)]]
            /\ resp' = NoResp

\* line 159: delete from refresh_tokens where id = storedToken.id
RefreshDelete(p) ==
    /\ proc[p].pc = "ref_delete"
    /\ tokens' = {r \in tokens : r.id # proc[p].row}
    /\ proc' = [proc EXCEPT ![p].pc = "ref_insert"]
    /\ resp' = NoResp
    /\ UNCHANGED <<env, acl, content, now, users, userRoles, roles, nextUserId, nextRowId,
                   adminOps, issued, registered, consumed, revoked>>

\* A refresh of `token` returns: every other refresh call in flight on the same
\* token has now seen a rival succeed.
AfterReturn(p, token) ==
    [q \in Procs |->
        IF q = p THEN IdleProc
        ELSE IF proc[q].pc \in {"ref_delete", "ref_insert"} /\ proc[q].req = token
             THEN [proc[q] EXCEPT !.flags = @ \cup {"rival"}]
        ELSE proc[q]]

\* lines 161-173: issue the new pair, insert the new row, return.
RefreshInsert(p) ==
    LET row == NewTokenRow(proc[p].uid, now)
        access == GenerateAccessToken(proc[p].uid, proc[p].email, now)
        late == IF IssueFailure # NoFailure THEN IssueFailure ELSE StoreFailure(row)
    IN
    /\ proc[p].pc = "ref_insert"
    /\ UNCHANGED <<env, acl, content, now, users, userRoles, roles, nextUserId, adminOps, registered, revoked>>
    /\ IF late # NoFailure
       THEN /\ proc' = [proc EXCEPT ![p] = IdleProc]
            /\ resp' = Failure("refresh", 401, "REFRESH_FAILED", late, "store-failed")
            /\ UNCHANGED <<tokens, nextRowId, issued, consumed>>
       ELSE /\ tokens' = tokens \cup {row}
            /\ nextRowId' = nextRowId + 1
            /\ issued' = issued \cup {access, row.token}
            /\ consumed' = consumed \cup {proc[p].req}
            /\ proc' = AfterReturn(p, proc[p].req)
            /\ resp' = TokenResponse("refresh", 200, proc[p].req, {}, access, row.token,
                                     proc[p].flags)

\* ------------------------------------------------------- database failures
\* The error of a database call that fails for a reason outside the program
\* (connection lost, timeout); no call is retried.
DbUnavailableMsg == "Connection terminated unexpectedly"

\* AuthService.refresh when the database call of its current step fails: the
\* delete of line 159, or the insert of lines 166-171 after the delete was
\* done.  The error propagates and the route answers 401.
RefreshDatabaseFailure(p) ==
    /\ proc[p].pc \in {"ref_delete", "ref_insert"}
    /\ proc' = [proc EXCEPT ![p] = IdleProc]
    /\ resp' = Failure("refresh", 401, "REFRESH_FAILED", DbUnavailableMsg,
                       IF proc[p].pc = "ref_delete" THEN "delete-failed" ELSE "insert-failed")
    /\ UNCHANGED <<env, acl, content, now, users, userRoles, roles, tokens, nextUserId,
                   nextRowId, adminOps, issued, registered, consumed, revoked>>

\* The database calls of AuthService.register after the two checks.
RegisterSteps == {"create", "assign-role", "read-back", "store-token"}

\* AuthService.register when the database call `step` fails: the insert of
\* the user row (line 55), or, with the user row in, the assignment of the
\* default role (line 63), the read of the user (line 67) or the insert of the
\* refresh token (line 77).  The error propagates and the route answers 400.
RegisterDatabaseFailure(p, step) ==
    /\ \/ proc[p].pc = "reg_create" /\ step = "create"
       \/ proc[p].pc = "reg_finish" /\ step \in RegisterSteps \ {"create"}
    /\ proc' = [proc EXCEPT ![p] = IdleProc]
    /\ userRoles' = IF /\ step \in {"read-back", "store-token"}
                       /\ "user" \in roles
                       /\ proc[p].uid \in DOMAIN users
                    THEN userRoles \cup {<<proc[p].uid, "user">>}
                    ELSE userRoles
    /\ resp' = Failure("register", 400, "REGISTRATION_FAILED", DbUnavailableMsg, step)
    /\ UNCHANGED <<env, acl, content, now, users, roles, tokens, nextUserId,
                   nextRowId, adminOps, issued, registered, consumed, revoked>>

\* ------------------------------------------------------------------- sweep
SweepKeepsLater(rows, t, subSecond) == {r \in rows : r.expiresAt > t + 1}

\* delete from refresh_tokens where expiresAt < new Date(): what is left.  The
\* stored expiry is a whole second and new Date() has milliseconds, so a row
\* that expires in the current second is deleted unless the call falls on the
\* very start of the second (subSecond false).
SweepKeeps(rows, t, subSecond) ==
    {r \in rows : ~(r.expiresAt < t \/ (subSecond /\ r.expiresAt = t))}

\* AuthService.cleanupExpiredTokens: delete, return the number of rows deleted.
CleanupExpiredTokens(subSecond) ==
    /\ tokens' = SweepKeeps(tokens, now, subSecond)
    /\ resp' = Success("sweep", 200, "", [deleted |-> Cardinality(tokens \ tokens')],
                       NoToken, NoToken, "", {})
    /\ UNCHANGED <<env, acl, content, now, users, userRoles, roles, nextUserId, nextRowId,
                   proc, adminOps, issued, registered, consumed, revoked>>

\* ------------------------------------------------------------- user routes
\* delete from users where id = ?, with the cascades of user_roles and refresh_tokens
CascadeRoles(id) == {ur \in userRoles : ur[1] # id}
CascadeTokens(id) == {r \in tokens : r.userId # id}
CascadeOwned(rows, id) == {r \in rows : r.ownerId # id}

\* UserService.update: set { ...userData } on the row
ApplyUpdate(row, data) ==
    CASE data.field = "email" -> [row EXCEPT !.email = data.value]
      [] data.field = "username" -> [row EXCEPT !.username = data.value]
      [] data.field = "status" -> [row EXCEPT !.status = data.value]

UpdateInputs ==
    {[field |-> "email", value |-> "a@x"],
     [field |-> "username", value |-> "alice"],
     [field |-> "status", value |-> "INACTIVE"]}

\* The answer of authMiddleware and requireRole('admin') when they stop the request.
GuardFailure(op, bearer) ==
    IF ~AuthMiddleware(bearer).ok
    THEN Failure(op, 401, "INVALID_TOKEN", VerifyAccessToken(bearer, now).message, "")
    ELSE Failure(op, 403, "FORBIDDEN", "Insufficient permissions", "")

\* PUT /users/:id (admin only)
AdminUpdate(bearer) ==
    LET auth == AuthMiddleware(bearer)
    IN
    /\ UNCHANGED <<env, acl, content, now, userRoles, roles, tokens, nextUserId, nextRowId,
                   proc, issued, registered, consumed, revoked>>
    /\ IF ~(auth.ok /\ RequireRole(auth, {"admin"}))
       THEN /\ resp' = GuardFailure("user-update", bearer)
            /\ UNCHANGED <<users, adminOps>>
       ELSE \E id \in UserIds, data \in UpdateInputs :
            IF id \notin DOMAIN users
            THEN /\ resp' = Failure("user-update", 404, "USER_NOT_FOUND", "User not found", "")
                 /\ UNCHANGED <<users, adminOps>>
            ELSE IF UsersUniqueViolation(id, ApplyUpdate(users[id], data))
            THEN /\ resp' = Failure("user-update", 500, "USER_UPDATE_FAILED", DbUniqueMsg,
                                    "update-refused")
                 /\ UNCHANGED <<users, adminOps>>
            ELSE /\ adminOps < MaxAdminOps
                 /\ users' = [users EXCEPT ![id] = ApplyUpdate(users[id], data)]
                 /\ adminOps' = adminOps + 1
                 /\ resp' = [Success("user-update", 200, "", NoReq, NoToken, NoToken, "", {})
                                EXCEPT !.data = {PublicUser(users'[id])}]

\* DELETE /users/:id (admin only)
AdminDelete(bearer) ==
    LET auth == AuthMiddleware(bearer)
    IN
    /\ UNCHANGED <<env, acl, now, roles, nextUserId, nextRowId,
                   proc, issued, registered, consumed, revoked>>
    /\ IF ~(auth.ok /\ RequireRole(auth, {"admin"}))
       THEN /\ resp' = GuardFailure("user-delete", bearer)
            /\ UNCHANGED <<users, userRoles, tokens, adminOps, content>>
       ELSE \E id \in UserIds :
            IF id = auth.userId
            THEN /\ resp' = Failure("user-delete", 400, "SELF_DELETE_FORBIDDEN",
                                    "Cannot delete your own account", "")
                 /\ UNCHANGED <<users, userRoles, tokens, adminOps, content>>
            ELSE IF id \notin DOMAIN users
            THEN /\ resp' = Failure("user-delete", 404, "USER_NOT_FOUND", "User not found", "")
                 /\ UNCHANGED <<users, userRoles, tokens, adminOps, content>>
            ELSE /\ adminOps < MaxAdminOps
                 /\ users' = [i \in DOMAIN users \ {id} |-> users[i]]
                 /\ userRoles' = CascadeRoles(id)
                 /\ tokens' = CascadeTokens(id)
                 /\ documents' = CascadeOwned(documents, id)
                 /\ teams' = CascadeOwned(teams, id)
                 /\ adminOps' = adminOps + 1
                 /\ resp' = Success("user-delete", 200, "User deleted successfully", NoReq,
                                    NoToken, NoToken, "", {})

\* ------------------------------------------------------------- role routes
RoleNames == {"admin", "user"}

\* select count(*) from user_roles where roleId = ?
UserCount(role) == Cardinality({ur \in userRoles : ur[2] = role})

\* delete from roles where id = ?, with the cascades of user_roles and role_permissions
CascadeUserRolesOfRole(role) == {ur \in userRoles : ur[2] # role}
CascadeRolePermissionsOfRole(role) == {rp \in rolePermissions : rp[1] # role}

\* DELETE /roles/:id (admin only), RoleService.delete up to the count: the
\* guards, then the count of the users that hold the role.
RoleDeleteCount(p, bearer, role) ==
    LET auth == AuthMiddleware(bearer)
    IN
    /\ FreeSlot(p)
    /\ UNCHANGED <<env, acl, content, now, users, userRoles, roles, tokens, nextUserId,
                   nextRowId, adminOps, issued, registered, consumed, revoked>>
    /\ IF ~(auth.ok /\ RequireRole(auth, {"admin"}))
       THEN /\ resp' = GuardFailure("role-delete", bearer)
            /\ UNCHANGED proc
       ELSE IF UserCount(role) > 0
       THEN /\ resp' = Failure("role-delete", 400, "DELETE_FAILED",
                               "Cannot delete role with assigned users", "")
            /\ UNCHANGED proc
       ELSE /\ proc' = [proc EXCEPT ![p] = Started("role_delete", [role |-> role])]
            /\ resp' = NoResp

\* RoleService.delete after the count: delete the role row, answer.
RoleDeleteRemove(p) ==
    LET role == proc[p].req.role
    IN
    /\ proc[p].pc = "role_delete"
    /\ proc' = [proc EXCEPT ![p] = IdleProc]
    /\ UNCHANGED <<env, content, now, users, tokens, nextUserId, nextRowId, adminOps,
                   issued, registered, consumed, revoked, permissions, nextPermId>>
    /\ IF role \notin roles
       THEN /\ resp' = Failure("role-delete", 404, "NOT_FOUND", "Role not found", "")
            /\ UNCHANGED <<roles, userRoles, rolePermissions>>
       ELSE /\ roles' = roles \ {role}
            /\ userRoles' = CascadeUserRolesOfRole(role)
            /\ rolePermissions' = CascadeRolePermissionsOfRole(role)
            /\ resp' = Success("role-delete", 200, "Role deleted successfully",
                               [role |-> role], NoToken, NoToken, "", {})

\* ------------------------------------------------------- permission routes
PermissionInputs ==
    {[action |-> "read", resource |-> "documents"],
     [action |-> "*", resource |-> "teams"],
     [action |-> "update", resource |-> "*"]}

\* PermissionService.exists(action, resource)
PermissionExists(action, resource) ==
    \E row \in permissions : row.action = action /\ row.resource = resource

PendingPerms == Cardinality({p \in Procs : proc[p].pc = "perm_insert"})
PermBudget == (nextPermId - 3) + PendingPerms < MaxPerms

\* POST /permissions (admin only) up to the check: the guards, then
\* PermissionService.exists.
PermissionCreateCheck(p, bearer, data) ==
    LET auth == AuthMiddleware(bearer)
    IN
    /\ FreeSlot(p)
    /\ UNCHANGED <<env, acl, content, now, users, userRoles, roles, tokens, nextUserId,
                   nextRowId, adminOps, issued, registered, consumed, revoked>>
    /\ IF ~(auth.ok /\ RequireRole(auth, {"admin"}))
       THEN /\ resp' = GuardFailure("permission-create", bearer)
            /\ UNCHANGED proc
       ELSE IF PermissionExists(data.action, data.resource)
       THEN /\ resp' = Failure("permission-create", 409, "CONFLICT",
                               "Permission already exists", "")
            /\ UNCHANGED proc
       ELSE /\ PermBudget
            /\ proc' = [proc EXCEPT ![p] = Started("perm_insert", data)]
            /\ resp' = NoResp

\* PermissionService.create: insert the row under a fresh id, answer 201.  The
\* table declares a primary key on id and nothing else, so no insert is refused.
PermissionCreateInsert(p) ==
    LET data == proc[p].req
        row == [id |-> nextPermId, action |-> data.action, resource |-> data.resource]
    IN
    /\ proc[p].pc = "perm_insert"
    /\ proc' = [proc EXCEPT ![p] = IdleProc]
    /\ UNCHANGED <<env, content, now, users, userRoles, roles, tokens, nextUserId, nextRowId,
                   adminOps, issued, registered, consumed, revoked, rolePermissions>>
    /\ permissions' = permissions \cup {row}
    /\ nextPermId' = nextPermId + 1
    /\ resp' = Success("permission-create", 201, "", data, NoToken, NoToken, "", {})

\* ---------------------------------------------------- authorization guards
\* requirePermission, lines 94-98: wildcard or specific permission
HasPermission(perms, resource, action) ==
    \/ "*:*" \in perms
    \/ (resource \o ":*") \in perms
    \/ ("*:" \o action) \in perms
    \/ (resource \o ":" \o action) \in perms

\* requirePermission(resource, action) for the user authMiddleware attached:
\* the code of the failure it answers, or NoFailure when it calls next().
RequirePermission(userId, resource, action) ==
    IF userId \notin DOMAIN users THEN "USER_NOT_FOUND"
    ELSE IF ~HasPermission(FindByIdWithRoles(userId).permissions, resource, action)
    THEN "FORBIDDEN"
    ELSE NoFailure

GuardedResources == {"documents", "teams"}
GuardedActions == {"read", "update"}
AllowedRoleLists == {{"admin"}, {"user"}, {"admin", "user"}}

\* A route behind authMiddleware and requirePermission(resource, action); the
\* handler answers 200.
PermissionGuarded(bearer, resource, action) ==
    LET auth == AuthMiddleware(bearer)
        req == [userId |-> auth.userId, resource |-> resource, action |-> action]
    IN
    /\ UNCHANGED <<env, acl, content, now, users, userRoles, roles, tokens, nextUserId,
                   nextRowId, proc, adminOps, issued, registered, consumed, revoked>>
    /\ resp' = IF ~auth.ok
               THEN GuardFailure("permission-guarded", bearer)
               ELSE IF RequirePermission(auth.userId, resource, action) = "USER_NOT_FOUND"
               THEN [Failure("permission-guarded", 404, "USER_NOT_FOUND", "User not found", "")
                        EXCEPT !.req = req]
               ELSE IF RequirePermission(auth.userId, resource, action) = "FORBIDDEN"
               THEN [Failure("permission-guarded", 403, "FORBIDDEN", "Insufficient permissions", "")
                        EXCEPT !.req = req]
               ELSE Success("permission-guarded", 200, "", req, NoToken, NoToken,
                            "handler-ran", {})

\* A route behind authMiddleware and requireRole(...allowedRoles); the handler
\* answers 200.
RoleGuarded(bearer, allowedRoles) ==
    LET auth == AuthMiddleware(bearer)
        req == [userId |-> auth.userId, allowedRoles |-> allowedRoles]
    IN
    /\ UNCHANGED <<env, acl, content, now, users, userRoles, roles, tokens, nextUserId,
                   nextRowId, proc, adminOps, issued, registered, consumed, revoked>>
    /\ resp' = IF ~(auth.ok /\ RequireRole(auth, allowedRoles))
               THEN [GuardFailure("role-guarded", bearer) EXCEPT !.req = req]
               ELSE Success("role-guarded", 200, "", req, NoToken, NoToken, "handler-ran", {})

\* Role changes made so far through UserService.assignRole / removeRole.
RoleOps == Cardinality({ur \in userRoles : ur \notin SeedUserRoles})
             + Cardinality({ur \in SeedUserRoles : ur[1] \in DOMAIN users /\ ur \notin userRoles})

\* UserService.assignRole(userId, roleId): insert ... on conflict do nothing
AssignRole(userId, role) ==
    /\ userId \in DOMAIN users
    /\ role \in roles
    /\ RoleOps < MaxRoleOps \/ <<userId, role>> \in userRoles
    /\ userRoles' = userRoles \cup {<<userId, role>>}
    /\ resp' = NoResp
    /\ UNCHANGED <<env, acl, content, now, users, roles, tokens, nextUserId, nextRowId,
                   proc, adminOps, issued, registered, consumed, revoked>>

\* UserService.removeRole(userId, roleId)
RemoveRole(userId, role) ==
    /\ RoleOps < MaxRoleOps \/ <<userId, role>> \notin userRoles
    /\ userRoles' = userRoles \ {<<userId, role>>}
    /\ resp' = NoResp
    /\ UNCHANGED <<env, acl, content, now, users, roles, tokens, nextUserId, nextRowId,
                   proc, adminOps, issued, registered, consumed, revoked>>

\* POST /roles/:id/permissions (admin only): RoleService.assignPermissions
\* replaces the permissions of the role by the given ones.
AssignPermissions(bearer, role, permissionIds) ==
    LET auth == AuthMiddleware(bearer)
    IN
    /\ UNCHANGED <<env, content, now, users, userRoles, roles, tokens, nextUserId, nextRowId,
                   proc, issued, registered, consumed, revoked, permissions, nextPermId>>
    /\ IF ~(auth.ok /\ RequireRole(auth, {"admin"}))
       THEN /\ resp' = GuardFailure("role-permissions", bearer)
            /\ UNCHANGED <<rolePermissions, adminOps>>
       ELSE IF role \notin roles
       THEN /\ resp' = Failure("role-permissions", 404, "NOT_FOUND", "Role not found", "")
            /\ UNCHANGED <<rolePermissions, adminOps>>
       ELSE /\ adminOps < MaxAdminOps
            /\ rolePermissions' = {rp \in rolePermissions : rp[1] # role}
                                    \cup {<<role, id>> : id \in permissionIds}
            /\ adminOps' = adminOps + 1
            /\ resp' = Success("role-permissions", 200, "", [role |-> role], NoToken, NoToken,
                               "", {})

\* ------------------------------------------------------ profile and lists
\* GET /auth/me: the profile of the authenticated principal
GetMe(bearer) ==
    LET auth == AuthMiddleware(bearer)
    IN
    /\ UNCHANGED <<env, acl, content, now, users, userRoles, roles, tokens, nextUserId,
                   nextRowId, proc, adminOps, issued, registered, consumed, revoked>>
    /\ resp' = IF ~auth.ok THEN GuardFailure("me", bearer)
               ELSE IF auth.userId \notin DOMAIN users
               THEN Failure("me", 404, "USER_NOT_FOUND", "User not found", "")
               ELSE [Success("me", 200, "", [userId |-> auth.userId], NoToken, NoToken, "", {})
                        EXCEPT !.data = {FindByIdWithRoles(auth.userId)}]

\* GET /users/:id
GetUser(bearer, id) ==
    LET auth == AuthMiddleware(bearer)
    IN
    /\ UNCHANGED <<env, acl, content, now, users, userRoles, roles, tokens, nextUserId,
                   nextRowId, proc, adminOps, issued, registered, consumed, revoked>>
    /\ resp' = IF ~auth.ok THEN GuardFailure("user-get", bearer)
               ELSE IF id \notin DOMAIN users
               THEN Failure("user-get", 404, "USER_NOT_FOUND", "User not found", "")
               ELSE [Success("user-get", 200, "", [userId |-> id], NoToken, NoToken, "", {})
                        EXCEPT !.data = {PublicUser(users[id])}]

\* order by createdAt desc limit pageSize offset (page - 1) * pageSize: the
\* ids of the page, ids being handed out in the order of creation.
PageOf(ids, page, pageSize) ==
    {id \in ids :
        LET before == Cardinality({j \in ids : j > id})
        IN (page - 1) * pageSize <= before /\ before < (page - 1) * pageSize + pageSize}

\* Math.ceil(a / b) for a >= 0 and b > 0
Ceil(a, b) == (a + b - 1) \div b

\* paginatedResponse(c, data, page, pageSize, total)
PaginatedResponse(op, req, data, page, pageSize, total) ==
    [Success(op, 200, "", req, NoToken, NoToken, "", {}) EXCEPT
        !.data = data,
        !.meta = [page |-> page, pageSize |-> pageSize, total |-> total,
                  totalPages |-> Ceil(total, pageSize)]]

PageInputs == {1, 2}
PageSizeInputs == {1, 2}

\* GET /users
ListUsers(bearer, page, pageSize) ==
    LET auth == AuthMiddleware(bearer)
        req == [page |-> page, pageSize |-> pageSize, matching |-> Cardinality(DOMAIN users)]
    IN
    /\ UNCHANGED <<env, acl, content, now, users, userRoles, roles, tokens, nextUserId,
                   nextRowId, proc, adminOps, issued, registered, consumed, revoked>>
    /\ resp' = IF ~auth.ok THEN GuardFailure("users-list", bearer)
               ELSE PaginatedResponse("users-list", req,
                        {PublicUser(users[id]) : id \in PageOf(DOMAIN users, page, pageSize)},
                        page, pageSize, Cardinality(DOMAIN users))

\* The rows of a table a list request matches, by their ids.
IdsOf(rows) == {r.id : r \in rows}

\* GET /documents: the documents of the authenticated principal
ListDocuments(bearer, page, pageSize) ==
    LET auth == AuthMiddleware(bearer)
        matching == {d \in documents : d.ownerId = auth.userId}
        req == [page |-> page, pageSize |-> pageSize, matching |-> Cardinality(matching)]
    IN
    /\ UNCHANGED <<env, acl, content, now, users, userRoles, roles, tokens, nextUserId,
                   nextRowId, proc, adminOps, issued, registered, consumed, revoked>>
    /\ resp' = IF ~auth.ok THEN GuardFailure("documents-list", bearer)
               ELSE PaginatedResponse("documents-list", req,
                        {d \in matching : d.id \in PageOf(IdsOf(matching), page, pageSize)},
                        Cardinality(matching), page, pageSize)

\* GET /teams
ListTeams(bearer, page, pageSize) ==
    LET auth == AuthMiddleware(bearer)
        req == [page |-> page, pageSize |-> pageSize, matching |-> Cardinality(teams)]
    IN
    /\ UNCHANGED <<env, acl, content, now, users, userRoles, roles, tokens, nextUserId,
                   nextRowId, proc, adminOps, issued, registered, consumed, revoked>>
    /\ resp' = IF ~auth.ok THEN GuardFailure("teams-list", bearer)
               ELSE PaginatedResponse("teams-list", req,
                        {t \in teams : t.id \in PageOf(IdsOf(teams), page, pageSize)},
                        Cardinality(teams), page, pageSize)

\* Authorization headers built around a token string.
HeadersOf(token) ==
    {Header(<<Word("Bearer"), Space, TokenString(token)>>),
     Header(<<Word("Bearer"), Space, Space, TokenString(token)>>),
     Header(<<Word("Bearer"), Space, TokenString(token), Space>>),
     Header(<<Word("Bearer"), Space, TokenString(token), Space, TokenString(token)>>),
     Header(<<Space, Word("Bearer"), Space, TokenString(token)>>),
     Header(<<Word("bearer"), Space, TokenString(token)>>),
     Header(<<Word("Basic"), Space, TokenString(token)>>),
     Header(<<Word("Bearer"), TokenString(token)>>),
     Header(<<TokenString(token)>>),
     Header(<<TokenString(token), Space, Word("Bearer")>>)}

HeaderInputs ==
    {NoHeader, Header(<<>>), Header(<<Word("Bearer")>>), Header(<<Word("Bearer"), Space>>),
     Header(<<Word("Bearer"), Space, Word("Bearer")>>)}
        \cup UNION {HeadersOf(token) : token \in issued \cup {ForgedToken}}

\* A route behind authMiddleware (GET /auth/me), called with the header as the
\* client sent it; the handler answers for the identity in the context.
HeaderGuarded(header) ==
    LET auth == AuthMiddlewareOnHeader(header)
    IN
    /\ UNCHANGED <<env, acl, content, now, users, userRoles, roles, tokens, nextUserId,
                   nextRowId, proc, adminOps, issued, registered, consumed, revoked>>
    /\ resp' = IF ~auth.ok
               THEN [Failure("header-guarded", 401, auth.code, auth.message, "")
                        EXCEPT !.req = [header |-> header]]
               ELSE IF auth.userId \notin DOMAIN users
               THEN [Failure("header-guarded", 404, "USER_NOT_FOUND", "User not found",
                             "handler-ran")
                        EXCEPT !.req = [header |-> header]]
               ELSE [Success("header-guarded", 200, "", [header |-> header], NoToken, NoToken,
                             "handler-ran", {})
                        EXCEPT !.data = {[userId |-> auth.userId, userRoles |-> auth.userRoles]}]

\* -------------------------------------------------------- document routes
\* DocumentService.isOwner(documentId, userId)
IsOwner(documentId, userId) ==
    \E d \in documents : d.id = documentId /\ d.ownerId = userId

\* DELETE /documents/:id: the caller must be the owner; then the row is deleted.
DeleteDocument(bearer, id) ==
    LET auth == AuthMiddleware(bearer)
        req == [userId |-> auth.userId, ids |-> {id}]
    IN
    /\ UNCHANGED <<env, acl, now, users, userRoles, roles, tokens, nextUserId, nextRowId,
                   proc, adminOps, issued, registered, consumed, revoked, teams>>
    /\ IF ~auth.ok
       THEN /\ resp' = GuardFailure("document-delete", bearer)
            /\ UNCHANGED documents
       ELSE IF ~IsOwner(id, auth.userId)
       THEN /\ resp' = [Failure("document-delete", 403, "FORBIDDEN", "Not authorized", "")
                            EXCEPT !.req = req]
            /\ UNCHANGED documents
       ELSE /\ documents' = {d \in documents : d.id # id}
            /\ resp' = Success("document-delete", 200, "Document deleted successfully", req,
                               NoToken, NoToken, "", {})

\* POST /documents/batch-delete: DocumentService.batchDelete(ids) deletes the
\* rows whose id is in ids and the route reports how many there were.
BatchDeleteDocuments(bearer, ids) ==
    LET auth == AuthMiddleware(bearer)
        req == [userId |-> auth.userId, ids |-> ids]
    IN
    /\ UNCHANGED <<env, acl, now, users, userRoles, roles, tokens, nextUserId, nextRowId,
                   proc, adminOps, issued, registered, consumed, revoked, teams>>
    /\ IF ~auth.ok
       THEN /\ resp' = GuardFailure("documents-batch-delete", bearer)
            /\ UNCHANGED documents
       ELSE /\ documents' = {d \in documents : d.id \notin ids}
            /\ resp' = [Success("documents-batch-delete", 200, "Deleted documents", req,
                                NoToken, NoToken, "", {})
                            EXCEPT !.meta = [NoMeta EXCEPT
                                        !.total = Cardinality(documents \ documents')]]

\* ---------------------------------------------------------------- hashing
LongPassword == "aaaaaaaaaaaaaaaaaaaaaaaaaaaaaaaaaaaaaaaaaaaaaaaaaaaaaaaaaaaaaaaaaaaaaaaa"

PasswordInputs ==
    Passwords \cup {"testPassword123", "wrongPassword", LongPassword,
                    LongPassword \o "b", LongPassword \o "c", LongPassword \o "bc"}

\* hashPassword(password); the caller keeps the hash.
HashOp(password) ==
    /\ resp' = Success("hashPassword", 200, "",
                       [password |-> password, hash |-> HashPassword(password)],
                       NoToken, NoToken, "", {})
    /\ UNCHANGED <<env, acl, content, now, users, userRoles, roles, tokens, nextUserId,
                   nextRowId, proc, adminOps, issued, registered, consumed, revoked>>

\* verifyPassword(candidate, hash) on the hash of the last hashPassword call.
VerifyOp(candidate) ==
    /\ resp.op \in {"hashPassword", "verifyPassword"}
    /\ resp' = Success("verifyPassword", 200, "",
                       [password |-> resp.req.password, hash |-> resp.req.hash,
                        candidate |-> candidate,
                        result |-> VerifyPassword(candidate, resp.req.hash)],
                       NoToken, NoToken, "", {})
    /\ UNCHANGED <<env, acl, content, now, users, userRoles, roles, tokens, nextUserId,
                   nextRowId, proc, adminOps, issued, registered, consumed, revoked>>

\* -------------------------------------------------------------------- spec
RegisterInputs ==
    {[email |-> "a@x", username |-> "alice", password |-> "password123"],
     [email |-> "b@x", username |-> "alice", password |-> "password123"],
     [email |-> "b@x", username |-> "bob", password |-> "password123"]}

RefreshInputs == {t \in issued : t.payload.type = "refresh"} \cup {ForgedToken}
BearerInputs == {t \in issued : t.payload.type = "access"} \cup {ForgedToken}

Next ==
    \/ Tick
    \/ \E email \in Emails, password \in Passwords : Login(email, password)
    \/ \E token \in RefreshInputs : Logout(token)
    \/ \E bearer \in BearerInputs : LogoutAll(bearer)
    \/ \E p \in Procs, data \in RegisterInputs : RegisterStart(p, data)
    \/ \E p \in Procs : RegisterCreate(p)
    \/ \E p \in Procs : RegisterFinish(p)
    \/ \E p \in Procs, token \in RefreshInputs : RefreshStart(p, token)
    \/ \E p \in Procs : RefreshDelete(p)
    \/ \E p \in Procs : RefreshInsert(p)
    \/ \E bearer \in BearerInputs : AdminUpdate(bearer)
    \/ \E bearer \in BearerInputs : AdminDelete(bearer)

Spec == Init /\ [][Next]_vars

\* Sessions of the seeded accounts: login, refresh (two requests may overlap),
\* logout, logout-all, and the clock.
NextSessions ==
    \/ Tick
    \/ \E email \in Emails, password \in Passwords : Login(email, password)
    \/ \E token \in RefreshInputs : Logout(token)
    \/ \E bearer \in BearerInputs : LogoutAll(bearer)
    \/ \E p \in Procs, token \in RefreshInputs : RefreshStart(p, token)
    \/ \E p \in Procs : RefreshDelete(p)
    \/ \E p \in Procs : RefreshInsert(p)

SpecSessions == Init /\ [][NextSessions]_vars

\* Accounts within one clock second: register (two requests may overlap), the
\* administrator's login, and the administrative update and delete.  Of these
\* handlers only the bearer check reads the clock.
NextAccounts ==
    \/ \E password \in Passwords : Login(AdminEmail, password)
    \/ \E p \in Procs, data \in RegisterInputs : RegisterStart(p, data)
    \/ \E p \in Procs : RegisterCreate(p)
    \/ \E p \in Procs : RegisterFinish(p)
    \/ \E bearer \in BearerInputs : AdminUpdate(bearer)
    \/ \E bearer \in BearerInputs : AdminDelete(bearer)

SpecAccounts == Init /\ [][NextAccounts]_vars

\* Account status: login of every account, the administrative update (which
\* sets a status), and the clock.
NextStatus ==
    \/ Tick
    \/ \E email \in Emails, password \in Passwords : Login(email, password)
    \/ \E bearer \in BearerInputs : AdminUpdate(bearer)

SpecStatus == Init /\ [][NextStatus]_vars

\* The token helpers on their own, under every configuration of the two
\* secrets (equal secrets included) and of the two lifetimes.
Lifetimes == {<<"1", "s">>, <<"2", "s">>}

InitJwt ==
    /\ env \in [JWT_SECRET : Secrets, JWT_REFRESH_SECRET : Secrets,
                JWT_EXPIRES_IN : Lifetimes, JWT_REFRESH_EXPIRES_IN : Lifetimes,
                RUNTIME : {"bun"}]
    /\ InitData

\* The answer of a verify helper: the payload, or the error it throws.
Verified(op, token, result) ==
    IF result.ok
    THEN Success(op, 200, "", [token |-> token, payload |-> result.payload],
                 NoToken, NoToken, "", {})
    ELSE [Failure(op, 401, "", result.message, "") EXCEPT !.req = [token |-> token]]

\* generateAccessToken(userId, email); the caller keeps the token.
IssueAccess(userId, email) ==
    /\ issued' = {GenerateAccessToken(userId, email, now)}
    /\ resp' = Success("generateAccessToken", 200, "", [userId |-> userId, email |-> email],
                       GenerateAccessToken(userId, email, now), NoToken, "", {})
    /\ UNCHANGED <<env, acl, content, now, users, userRoles, roles, tokens, nextUserId, nextRowId,
                   proc, adminOps, registered, consumed, revoked>>

\* generateRefreshToken(userId); the caller keeps the token.
IssueRefresh(userId) ==
    /\ issued' = {GenerateRefreshToken(userId, now).token}
    /\ resp' = Success("generateRefreshToken", 200, "", [userId |-> userId],
                       NoToken, GenerateRefreshToken(userId, now).token, "", {})
    /\ UNCHANGED <<env, acl, content, now, users, userRoles, roles, tokens, nextUserId, nextRowId,
                   proc, adminOps, registered, consumed, revoked>>

\* verifyAccessToken(token)
VerifyAccess(token) ==
    /\ resp' = Verified("verifyAccessToken", token, VerifyAccessToken(token, now))
    /\ UNCHANGED <<env, acl, content, now, users, userRoles, roles, tokens, nextUserId, nextRowId,
                   proc, adminOps, issued, registered, consumed, revoked>>

\* verifyRefreshToken(token)
VerifyRefresh(token) ==
    /\ resp' = Verified("verifyRefreshToken", token, VerifyRefreshToken(token, now))
    /\ UNCHANGED <<env, acl, content, now, users, userRoles, roles, tokens, nextUserId, nextRowId,
                   proc, adminOps, issued, registered, consumed, revoked>>

NextJwt ==
    \/ Tick
    \/ \E userId \in UserIds, email \in Emails : IssueAccess(userId, email)
    \/ \E userId \in UserIds : IssueRefresh(userId)
    \/ \E token \in issued : VerifyAccess(token)
    \/ \E token \in issued : VerifyRefresh(token)

SpecJwt == InitJwt /\ [][NextJwt]_vars

\* Roles: the administrator deletes roles while registrations, which assign
\* the default role, are in flight.
NextRoles ==
    \/ \E password \in Passwords : Login(AdminEmail, password)
    \/ \E p \in Procs, data \in RegisterInputs : RegisterStart(p, data)
    \/ \E p \in Procs : RegisterCreate(p)
    \/ \E p \in Procs : RegisterFinish(p)
    \/ \E p \in Procs, bearer \in BearerInputs, role \in RoleNames : RoleDeleteCount(p, bearer, role)
    \/ \E p \in Procs : RoleDeleteRemove(p)

SpecRoles == Init /\ [][NextRoles]_vars

\* Permissions: the administrator creates permissions, two requests may overlap.
NextPermissions ==
    \/ Tick
    \/ \E password \in Passwords : Login(AdminEmail, password)
    \/ \E p \in Procs, bearer \in BearerInputs, data \in PermissionInputs :
            PermissionCreateCheck(p, bearer, data)
    \/ \E p \in Procs : PermissionCreateInsert(p)

SpecPermissions == Init /\ [][NextPermissions]_vars

SeededEmails == {AdminEmail, "b@x"}

\* The permission guard: requests behind requirePermission by the seeded
\* accounts, while roles are assigned, permissions are created and given to
\* roles, and an account is deleted.
NextGuards ==
    \/ \E email \in SeededEmails : Login(email, SeedPassword)
    \/ \E userId \in UserIds, role \in RoleNames : AssignRole(userId, role)
    \/ \E bearer \in BearerInputs, data \in PermissionInputs : PermissionCreateCheck(1, bearer, data)
    \/ PermissionCreateInsert(1)
    \/ \E bearer \in BearerInputs, role \in RoleNames, id \in 1..(nextPermId - 1) :
            AssignPermissions(bearer, role, {id})
    \/ \E bearer \in BearerInputs : AdminDelete(bearer)
    \/ \E bearer \in BearerInputs, resource \in GuardedResources, action \in GuardedActions :
            PermissionGuarded(bearer, resource, action)

SpecGuards == InitSeeded /\ [][NextGuards]_vars

\* The role guard: requests behind requireRole by the seeded accounts, while
\* roles are assigned and removed and the clock runs.
NextRoleGuard ==
    \/ Tick
    \/ \E email \in SeededEmails : Login(email, SeedPassword)
    \/ \E userId \in UserIds, role \in RoleNames : AssignRole(userId, role)
    \/ \E userId \in UserIds, role \in RoleNames : RemoveRole(userId, role)
    \/ \E bearer \in BearerInputs, allowedRoles \in AllowedRoleLists :
            RoleGuarded(bearer, allowedRoles)

SpecRoleGuard == InitSeeded /\ [][NextRoleGuard]_vars

\* Access-token lifetimes: the duration strings JWT_EXPIRES_IN may hold, each
\* with the integer and the unit it is written with.
DurationTable ==
    {[text |-> <<"2", "s">>, n |-> 2, unit |-> "s"],
     [text |-> <<"1", "5", "m">>, n |-> 15, unit |-> "m"],
     [text |-> <<"0", "2", "m">>, n |-> 2, unit |-> "m"],
     [text |-> <<"1", "h">>, n |-> 1, unit |-> "h"],
     [text |-> <<"7", "d">>, n |-> 7, unit |-> "d"],
     [text |-> <<"1", "0", "0", "s">>, n |-> 100, unit |-> "s"]}

InitLifetime ==
    /\ \E d \in DurationTable : env = [DefaultEnv EXCEPT !.JWT_EXPIRES_IN = d.text]
    /\ InitData

\* Register, login and refresh, one request at a time, under every lifetime.
NextLifetime ==
    \/ Tick
    \/ \E password \in Passwords : Login(AdminEmail, password)
    \/ \E data \in RegisterInputs : RegisterStart(1, data)
    \/ RegisterCreate(1)
    \/ RegisterFinish(1)
    \/ \E token \in RefreshInputs : RefreshStart(1, token)
    \/ RefreshDelete(1)
    \/ RefreshInsert(1)

SpecLifetime == InitLifetime /\ [][NextLifetime]_vars

\* User objects: every endpoint that answers with a user object, on the seeded
\* accounts and one registration.
NextProfiles ==
    \/ \E email \in SeededEmails, password \in Passwords : Login(email, password)
    \/ \E data \in RegisterInputs : RegisterStart(1, data)
    \/ RegisterCreate(1)
    \/ RegisterFinish(1)
    \/ \E bearer \in BearerInputs : GetMe(bearer)
    \/ \E bearer \in BearerInputs, id \in UserIds : GetUser(bearer, id)
    \/ \E bearer \in BearerInputs, page \in PageInputs, pageSize \in PageSizeInputs :
            ListUsers(bearer, page, pageSize)
    \/ \E bearer \in BearerInputs : AdminUpdate(bearer)

SpecProfiles == InitSeeded /\ [][NextProfiles]_vars

\* The seeded database with some documents and teams of the seeded accounts.
OwnedRows(n) == {[id |-> i, ownerId |-> i % 2] : i \in 1..n}

InitLists ==
    /\ env = DefaultEnv
    /\ users = (0 :> SeedAdmin) @@ (1 :> SeedUser)
    /\ userRoles = SeedUserRoles
    /\ nextUserId = 2
    /\ now = 1
    /\ roles = {"admin", "user"}
    /\ tokens = {}
    /\ nextRowId = 1
    /\ proc = [p \in Procs |-> IdleProc]
    /\ resp = NoResp
    /\ adminOps = 0
    /\ issued = {}
    /\ registered = {}
    /\ consumed = {}
    /\ revoked = {}
    /\ permissions = SeedPermissions
    /\ rolePermissions = SeedRolePermissions
    /\ nextPermId = 3
    /\ \E n \in 0..MaxDocs : documents = OwnedRows(n)
    /\ \E n \in 0..MaxDocs : teams = OwnedRows(n)

\* The paginated list endpoints, called by the seeded accounts.
NextLists ==
    \/ \E email \in SeededEmails : Login(email, SeedPassword)
    \/ \E bearer \in BearerInputs, page \in PageInputs, pageSize \in PageSizeInputs :
            ListUsers(bearer, page, pageSize)
    \/ \E bearer \in BearerInputs, page \in PageInputs, pageSize \in PageSizeInputs :
            ListDocuments(bearer, page, pageSize)
    \/ \E bearer \in BearerInputs, page \in PageInputs, pageSize \in PageSizeInputs :
            ListTeams(bearer, page, pageSize)

SpecLists == InitLists /\ [][NextLists]_vars

\* The password helpers on their own, in either runtime.
InitHash ==
    /\ \E runtime \in {"bun", "node"} : env = [DefaultEnv EXCEPT !.RUNTIME = runtime]
    /\ InitData

NextHash ==
    \/ \E password \in PasswordInputs : HashOp(password)
    \/ \E candidate \in PasswordInputs : VerifyOp(candidate)

SpecHash == InitHash /\ [][NextHash]_vars

\* One refresh at a time against everything that makes it fail: rotation
\* (the redeemed token has no row), the clock, and the administrative update,
\* which sets a status.
NextRefresh ==
    \/ Tick
    \/ Login(AdminEmail, SeedPassword)
    \/ \E token \in RefreshInputs : RefreshStart(1, token)
    \/ RefreshDelete(1)
    \/ RefreshInsert(1)
    \/ \E bearer \in BearerInputs : AdminUpdate(bearer)

SpecRefresh == Init /\ [][NextRefresh]_vars

\* Lifetime strings the environment schema accepts (any string): one that
\* matches <integer><s|m|h|d>, and some that do not (no unit, an unknown unit,
\* a fraction, the empty string).
ConfiguredLifetimes ==
    {<<"2", "s">>, <<"1", "5">>, <<"1", "w">>, <<"1", ".", "5", "h">>, <<>>}

InitConfigured ==
    /\ \E access \in ConfiguredLifetimes, refresh \in ConfiguredLifetimes :
            env = [DefaultEnv EXCEPT !.JWT_EXPIRES_IN = access,
                                     !.JWT_REFRESH_EXPIRES_IN = refresh]
    /\ InitData

\* Register, login and refresh, one request at a time, under every configured
\* pair of lifetime strings.
NextConfigured ==
    \/ Tick
    \/ \E password \in Passwords : Login(AdminEmail, password)
    \/ \E data \in RegisterInputs : RegisterStart(1, data)
    \/ RegisterCreate(1)
    \/ RegisterFinish(1)
    \/ \E token \in RefreshInputs : RefreshStart(1, token)
    \/ RefreshDelete(1)
    \/ RefreshInsert(1)

SpecConfigured == InitConfigured /\ [][NextConfigured]_vars

\* The authentication guard on every shape of Authorization header, around
\* access and refresh tokens of the administrator, while the clock runs.
NextHeaders ==
    \/ Tick
    \/ Login(AdminEmail, SeedPassword)
    \/ \E header \in HeaderInputs : HeaderGuarded(header)

SpecHeaders == Init /\ [][NextHeaders]_vars

\* The sweep between the steps of logins and refreshes, while the clock runs.
NextSweep ==
    \/ Tick
    \/ Login(AdminEmail, SeedPassword)
    \/ \E p \in Procs, token \in RefreshInputs : RefreshStart(p, token)
    \/ \E p \in Procs : RefreshDelete(p)
    \/ \E p \in Procs : RefreshInsert(p)
    \/ \E subSecond \in BOOLEAN : CleanupExpiredTokens(subSecond)

SpecSweep == Init /\ [][NextSweep]_vars

\* One refresh at a time against a database whose calls may fail.
NextRefreshFailures ==
    \/ Tick
    \/ Login(AdminEmail, SeedPassword)
    \/ \E token \in RefreshInputs : RefreshStart(1, token)
    \/ RefreshDelete(1)
    \/ RefreshInsert(1)
    \/ RefreshDatabaseFailure(1)

SpecRefreshFailures == Init /\ [][NextRefreshFailures]_vars

\* Documents of the seeded accounts and the two routes that delete documents.
NextDocuments ==
    \/ \E email \in SeededEmails : Login(email, SeedPassword)
    \/ \E bearer \in BearerInputs, id \in 1..MaxDocs : DeleteDocument(bearer, id)
    \/ \E bearer \in BearerInputs, ids \in SUBSET (1..MaxDocs) \ {{}} :
            BatchDeleteDocuments(bearer, ids)

SpecDocuments == InitLists /\ [][NextDocuments]_vars

\* Everything that writes refresh_tokens: a registration, logins, refresh,
\* logout, logout-all, the sweep and the deletion of a user.  One register or
\* refresh call is in flight at a time and the other requests fall between
\* its steps.
RowsAccount == [email |-> "a@x", username |-> "alice", password |-> "password123"]

NextRows ==
    \/ Tick
    \/ Login(RowsAccount.email, RowsAccount.password)
    \/ Login(AdminEmail, SeedPassword)
    \/ RegisterStart(1, RowsAccount)
    \/ RegisterCreate(1)
    \/ RegisterFinish(1)
    \/ \E token \in RefreshInputs : RefreshStart(1, token)
    \/ RefreshDelete(1)
    \/ RefreshInsert(1)
    \/ \E token \in RefreshInputs : Logout(token)
    \/ \E bearer \in BearerInputs : LogoutAll(bearer)
    \/ \E subSecond \in BOOLEAN : CleanupExpiredTokens(subSecond)
    \/ \E bearer \in BearerInputs : AdminDelete(bearer)

SpecRows == Init /\ [][NextRows]_vars

\* Registrations (two may overlap) against a database whose calls may fail.
NextRegisterFailures ==
    \/ \E p \in Procs, data \in RegisterInputs : RegisterStart(p, data)
    \/ \E p \in Procs : RegisterCreate(p)
    \/ \E p \in Procs : RegisterFinish(p)
    \/ \E p \in Procs, step \in RegisterSteps : RegisterDatabaseFailure(p, step)

SpecRegisterFailures == Init /\ [][NextRegisterFailures]_vars

\* ------------------------------------------------------------------ claims
RefreshSucceeded == resp.op = "refresh" /\ resp.status = 200

\* C1: single-use rotation.  Once refresh(t) has returned successfully, every
\* refresh(t) called later fails: no refresh call succeeds on a token that an
\* earlier successful refresh had already redeemed when the call was made.
C1_SingleUse == RefreshSucceeded => "consumed" \notin resp.flags

\* C2: of two refresh calls on the same token that overlap, at most one
\* succeeds: no refresh call succeeds after a rival call on the same token
\* returned successfully while it was in flight.
C2_AtMostOneSucceeds == RefreshSucceeded => "rival" \notin resp.flags

\* C3: every successful refresh(t) returns a refresh-token string different
\* from the submitted t.
C3_NewTokenDiffers == RefreshSucceeded => resp.refreshToken # resp.req

\* C4: after logoutAll(u) has completed, refresh rejects every refresh token
\* issued to u before that call, and logoutAll(u) leaves the rows of every
\* other user as they were.
C4_LogoutAllRevokes ==
    /\ [](RefreshSucceeded => "revoked" \notin resp.flags)
    /\ [][\A bearer \in BearerInputs :
            LogoutAll(bearer) /\ AuthMiddleware(bearer).ok =>
                {r \in tokens' : r.userId # AuthMiddleware(bearer).userId}
                    = {r \in tokens : r.userId # AuthMiddleware(bearer).userId}]_vars

RegisterFailed(r) == r.op = "register" /\ r.status = 400 /\ r.code = "REGISTRATION_FAILED"

ClientView(r) == <<r.status, r.code, r.message, r.accessToken, r.refreshToken>>

\* C6: a login with an existing email and a wrong password and a login with
\* an email that does not exist are answered with the same status, code and
\* message (401, LOGIN_FAILED, "Invalid email or password"), whatever the
\* state, and neither changes anything stored.
C6_EnumerationResistance ==
    [][\A email \in Emails, password \in Passwords :
        Login(email, password)
          /\ (~EmailExists(email)
                \/ ~VerifyPassword(password, users[FindByEmail(email)].password))
            => /\ ClientView(resp') =
                    <<401, "LOGIN_FAILED", "Invalid email or password", NoToken, NoToken>>
               /\ UNCHANGED <<env, acl, content, users, userRoles, roles, tokens, nextUserId, nextRowId,
                              issued>>]_vars

C6_WrongPasswordSeen ==
    /\ resp.op = "login"
    /\ resp.note = "wrong-password"
    /\ resp.status = 401

\* C7: for every userId and email, at every time before its expiry the access
\* token generated for them verifies as an access token with the same userId
\* and email; verifyAccessToken rejects every generated refresh token and
\* verifyRefreshToken rejects every generated access token, at every time and
\* under every pair of secrets, equal ones included.
C7_TokenKindRoundTrip ==
    /\ \A userId \in UserIds, email \in Emails, t \in Times, at \in Times :
        LET access == GenerateAccessToken(userId, email, t)
            refresh == GenerateRefreshToken(userId, t).token
        IN
        /\ (t <= at /\ at < access.payload.exp) =>
                /\ VerifyAccessToken(access, at).ok
                /\ VerifyAccessToken(access, at).payload.userId = userId
                /\ VerifyAccessToken(access, at).payload.email = email
        /\ ~VerifyAccessToken(refresh, at).ok
        /\ ~VerifyRefreshToken(access, at).ok
    /\ resp.op = "verifyAccessToken" /\ resp.req.token.payload.type = "refresh"
            => resp.status = 401
    /\ resp.op = "verifyRefreshToken" /\ resp.req.token.payload.type = "access"
            => resp.status = 401

C7_RefreshTokenRefusedUnderEqualSecrets ==
    /\ resp.op = "verifyAccessToken"
    /\ resp.req.token.payload.type = "refresh"
    /\ resp.status = 401
    /\ env.JWT_SECRET = env.JWT_REFRESH_SECRET
    /\ now < resp.req.token.payload.exp

\* C8: a login with the correct password for a user whose status is not
\* ACTIVE is answered 401 and changes neither the users table nor the
\* refresh-token table; a successful login sets the user's last-login time to
\* the current time and adds exactly one refresh-token row, which holds the
\* returned refresh token and belongs to the user.
C8_LoginStatusAndEffects ==
    [][\A email \in Emails, password \in Passwords :
        Login(email, password) =>
          /\ (/\ EmailExists(email)
              /\ VerifyPassword(password, users[FindByEmail(email)].password)
              /\ users[FindByEmail(email)].status # "ACTIVE")
                => /\ resp'.status = 401
                   /\ resp'.code = "LOGIN_FAILED"
                   /\ UNCHANGED <<users, tokens>>
          /\ resp'.status = 200
                => /\ users'[FindByEmail(email)].lastLoginAt = now
                   /\ \E r \in tokens' \ tokens :
                        /\ tokens' = tokens \cup {r}
                        /\ r.token = resp'.refreshToken
                        /\ r.userId = FindByEmail(email)]_vars

C8_InactiveLoginSeen ==
    /\ resp.op = "login"
    /\ resp.note = "inactive"
    /\ resp.status = 401

\* C9: logout(t) answers 200 and removes the rows whose token is t, at most
\* one, and nothing else; when no row holds t the table is unchanged; a second
\* logout(t) changes nothing more.
C9_LogoutNarrowIdempotent ==
    [][\A token \in RefreshInputs :
        Logout(token) =>
          /\ resp'.status = 200
          /\ tokens' \subseteq tokens
          /\ \A r \in tokens : r \in tokens' <=> r.token # token
          /\ Cardinality(tokens \ tokens') <= 1
          /\ {r \in tokens' : r.token # token} = tokens'
          /\ UNCHANGED <<users, userRoles, roles>>]_vars

C9_LogoutOfAbsentTokenSeen ==
    /\ resp.op = "logout"
    /\ resp.status = 200
    /\ resp.note = "no-row"
    /\ tokens # {}

\* C10: in every reachable state no two user rows share an email and no two
\* user rows share a username.
C10_UniqueEmailUsername ==
    \A i \in DOMAIN users, j \in DOMAIN users :
        i # j => users[i].email # users[j].email /\ users[i].username # users[j].username

C10_ConcurrentRegisterRefused ==
    /\ RegisterFailed(resp)
    /\ resp.note = "create-failed"

\* C11: a role that has at least one assigned user is never deleted: the role
\* row is removed only if no user_roles row references it at the moment of
\* removal, also when the delete interleaves with a registration that assigns
\* the default role.
C11_AssignedRoleNeverDeleted ==
    [][\A p \in Procs :
        RoleDeleteRemove(p) /\ roles' # roles => UserCount(proc[p].req.role) = 0]_vars

\* C12: in every reachable state the permissions table holds at most one row
\* for each (action, resource) pair, also after overlapping create requests
\* for the same pair; a create request for an existing pair is answered with
\* a conflict and adds no row.
C12_OneRowPerPair ==
    /\ [](\A a \in permissions, b \in permissions :
            a.action = b.action /\ a.resource = b.resource => a.id = b.id)
    /\ [][\A p \in Procs, bearer \in BearerInputs, data \in PermissionInputs :
            (/\ PermissionCreateCheck(p, bearer, data)
             /\ AuthMiddleware(bearer).ok
             /\ RequireRole(AuthMiddleware(bearer), {"admin"})
             /\ PermissionExists(data.action, data.resource))
                => resp'.status = 409 /\ UNCHANGED <<permissions, proc>>]_vars

\* The permission rows of the roles the stored user_roles rows give userId.
RowsGranted(userId) ==
    {row \in permissions :
        \E r \in roles : <<userId, r>> \in userRoles /\ <<r, row.id>> \in rolePermissions}

\* Some row granted to userId matches (resource, action) segment by segment,
\* a segment * matching everything.
Granted(userId, resource, action) ==
    \E row \in RowsGranted(userId) :
        /\ row.resource \in {resource, "*"}
        /\ row.action \in {action, "*"}

\* The answer of a request that passed authMiddleware and reached requirePermission.
PermissionGuardAnswered == resp.op = "permission-guarded" /\ resp.status # 401

\* C13 as the specification states it: requirePermission(resource, action)
\* lets a request through if and only if the permissions of the roles
\* currently assigned to the principal contain resource:action, resource:*,
\* *:action or *:*; otherwise it answers 403 Forbidden and the handler is not run.
C13_PermissionGuardOr403 ==
    PermissionGuardAnswered =>
        IF Granted(resp.req.userId, resp.req.resource, resp.req.action)
        THEN resp.status = 200 /\ resp.note = "handler-ran"
        ELSE resp.status = 403 /\ resp.note # "handler-ran"

\* C13, amended: the request is let through if and only if the permissions
\* of the roles currently assigned to the principal contain resource:action,
\* resource:*, *:action or *:*; otherwise the handler is not run and the answer
\* is 403 FORBIDDEN when the principal's user row exists and 404
\* USER_NOT_FOUND when it does not.
C13_PermissionGuard ==
    PermissionGuardAnswered =>
        IF Granted(resp.req.userId, resp.req.resource, resp.req.action)
        THEN resp.status = 200 /\ resp.note = "handler-ran"
        ELSE /\ resp.note # "handler-ran"
             /\ resp.status = IF resp.req.userId \in DOMAIN users THEN 403 ELSE 404
             /\ resp.code = IF resp.req.userId \in DOMAIN users THEN "FORBIDDEN"
                            ELSE "USER_NOT_FOUND"

\* A request let through by a wildcard on one segment only.
C13_SegmentWildcardSeen ==
    /\ resp.op = "permission-guarded"
    /\ resp.note = "handler-ran"
    /\ \A row \in RowsGranted(resp.req.userId) :
            /\ <<row.resource, row.action>> # <<"*", "*">>
            /\ <<row.resource, row.action>> # <<resp.req.resource, resp.req.action>>

\* C14: role freshness.  The role set requireRole uses for a request is the
\* set stored at the time of the request: whatever roles the user held when
\* the access token was issued, the request passes exactly when the roles
\* stored now intersect the required list, and is answered 403 otherwise.
C14_RoleFreshness ==
    resp.op = "role-guarded" /\ resp.status # 401 =>
        LET current == {r \in roles : <<resp.req.userId, r>> \in userRoles}
        IN IF current \cap resp.req.allowedRoles # {}
           THEN resp.status = 200 /\ resp.note = "handler-ran"
           ELSE resp.status = 403 /\ resp.note # "handler-ran"

\* The seeded admin, whose role admin has been removed since, is refused on a
\* route that requires admin; a seeded user given admin since is let through.
C14_RoleChangeSeen ==
    /\ resp.op = "role-guarded"
    /\ resp.req.allowedRoles = {"admin"}
    /\ \/ resp.status = 403 /\ resp.req.userId = 0 /\ 0 \in DOMAIN users
       \/ resp.status = 200 /\ resp.req.userId = 1

\* The seconds in a duration of n units.
SecondsOf(n, unit) ==
    CASE unit = "s" -> n
      [] unit = "m" -> n * 60
      [] unit = "h" -> n * 60 * 60
      [] unit = "d" -> n * 60 * 60 * 24

TokenResponseSeen == resp.op \in {"register", "login", "refresh"} /\ resp.status \in {200, 201}

\* C15: for every configured duration string <integer><s|m|h|d>, the expiresIn
\* value returned by register, login and refresh is the duration in seconds
\* (n, 60n, 3600n, 86400n) and equals exp - iat of the access token returned
\* in the same response.
C15_ExpiresInSeconds ==
    TokenResponseSeen =>
        /\ \E d \in DurationTable :
                d.text = env.JWT_EXPIRES_IN /\ resp.expiresIn = SecondsOf(d.n, d.unit)
        /\ resp.expiresIn = resp.accessToken.payload.exp - resp.accessToken.payload.iat

C15_HoursRefreshSeen ==
    /\ resp.op = "refresh"
    /\ resp.status = 200
    /\ env.JWT_EXPIRES_IN = <<"1", "h">>
    /\ resp.expiresIn = 3600

\* C16: logout and logout-all revoke refresh tokens only.  In every state,
\* so after every logout(t) and logoutAll(u), the authentication guard accepts
\* a bearer token exactly when it is signed with the access secret, is of kind
\* access and has not reached its expiry, whatever the refresh-token table
\* holds; an unexpired access token of the user who logged out still passes.
C16_AccessTokenOutlivesLogout ==
    /\ \A t \in BearerInputs :
            AuthMiddleware(t).ok <=>
                /\ t.sig = env.JWT_SECRET
                /\ t.payload.type = "access"
                /\ now < t.payload.exp
    /\ resp.op \in {"logout", "logout-all"} /\ resp.status = 200 =>
            \A t \in issued :
                t.payload.type = "access" /\ now < t.payload.exp => AuthMiddleware(t).ok

\* logoutAll(u) has answered, no refresh-token row of u is left, and an access
\* token of u passes the guard.
C16_GuardPassesAfterLogoutAll ==
    /\ resp.op = "logout-all"
    /\ resp.status = 200
    /\ ~\E r \in tokens : r.userId = resp.req.userId
    /\ \E t \in issued :
            /\ t.payload.type = "access"
            /\ t.payload.userId = resp.req.userId
            /\ AuthMiddleware(t).ok

\* C17: no response of register, login, /auth/me or the user endpoints
\* contains a user's password hash: every user object in a response body is
\* the public projection, which has no password field.
C17_NoPasswordInResponses ==
    \A u \in resp.data : "password" \notin DOMAIN u

\* A login has answered with the user object of an account that has a password.
C17_LoginUserObjectSeen ==
    /\ resp.op = "login"
    /\ resp.status = 200
    /\ \E u \in resp.data, id \in DOMAIN users :
            /\ u.email = users[id].email
            /\ "password" \in DOMAIN users[id]
            /\ "permissions" \in DOMAIN u

ListAnswered == resp.op \in {"users-list", "documents-list", "teams-list"} /\ resp.status = 200

\* C19: every paginated list endpoint (users, documents, teams) reports
\* meta.total = the number of matching rows, meta.page = the requested page,
\* meta.pageSize = the requested page size and meta.totalPages =
\* ceil(total / pageSize).
C19_PaginationMeta ==
    ListAnswered =>
        /\ resp.meta.total = resp.req.matching
        /\ resp.meta.page = resp.req.page
        /\ resp.meta.pageSize = resp.req.pageSize
        /\ resp.meta.totalPages * resp.req.pageSize >= resp.req.matching
        /\ (resp.meta.totalPages - 1) * resp.req.pageSize < resp.req.matching
                \/ (resp.req.matching = 0 /\ resp.meta.totalPages = 0)

\* The text of the errors the database raises.
DatabaseMessages == {DbUniqueMsg, DbForeignKeyMsg}

\* C18: every failed request is answered with a code and a message, and the
\* message is one of the application's own: when a database call fails inside
\* register, login, refresh or logout, the text of the database error is not
\* placed in the response.
C18_NoDatabaseTextInFailures ==
    resp.status >= 400 =>
        /\ resp.code # ""
        /\ resp.message # ""
        /\ resp.message \notin DatabaseMessages

\* C20: password hashing round trip.  For all passwords p and q,
\* verifyPassword(q, hashPassword(p)) is true exactly when q = p, and the hash
\* is never equal to the plain password.
C20_HashRoundTrip ==
    /\ resp.op = "verifyPassword" =>
            (resp.req.result <=> resp.req.candidate = resp.req.password)
    /\ resp.op \in {"hashPassword", "verifyPassword"} => resp.req.hash # resp.req.password

\* The cases in which refresh must refuse `token`, read off the tables.
RefreshMustFail(token) ==
    \/ ~\E r \in tokens : r.token = token
    \/ \A r \in tokens : r.token = token => r.userId # token.payload.userId
    \/ \A r \in tokens : r.token = token => r.expiresAt <= now
    \/ /\ token.payload.userId \in DOMAIN users
       /\ users[token.payload.userId].status # "ACTIVE"

\* C21: a refresh(t) call fails with 401 and leaves the refresh-token table
\* unchanged (t is not consumed) when t has no row in the store, when the row
\* of t belongs to a user other than the one in t's payload, when the stored
\* expiry of t is not later than the current time, and when the owning user's
\* status is not ACTIVE.
C21_RefreshRefusals ==
    [][\A p \in Procs, token \in RefreshInputs :
        RefreshStart(p, token) /\ RefreshMustFail(token)
            => /\ resp'.op = "refresh"
               /\ resp'.status = 401
               /\ resp'.code = "REFRESH_FAILED"
               /\ UNCHANGED <<tokens, proc>>]_vars

\* A refresh was refused for the status of its user while the row of a token
\* of that user is in the store and has not expired.
C21_InactiveRefusedSeen ==
    /\ resp.op = "refresh"
    /\ resp.status = 401
    /\ resp.note = "inactive"
    /\ \E r \in tokens : r.expiresAt > now /\ users[r.userId].status # "ACTIVE"

\* C22: when the configured access- or refresh-token lifetime string does not
\* match <integer><s|m|h|d>, the token issuer falls back to a default lifetime:
\* the tokens are still issued, and no register, login or refresh is refused
\* for the format of the lifetime string.
C22_LifetimeFallback ==
    resp.op \in {"register", "login", "refresh"} => resp.message # InvalidExpiresMsg

\* The header is exactly the word Bearer, one space and one token.
BearerShaped(header) ==
    /\ header.present
    /\ Len(header.value) = 3
    /\ header.value[1] = Word("Bearer")
    /\ header.value[2] = Space
    /\ header.value[3].kind # "space"

\* C23: the authentication guard treats every Authorization header that is
\* absent or is not exactly the word Bearer, one space and one token as "no
\* token": it answers 401 with the same code and message in all these cases,
\* does not run the downstream handler and attaches no identity; the
\* downstream handler runs only after verifyAccessToken has accepted the token.
C23_MalformedHeaderIsNoToken ==
    resp.op = "header-guarded" =>
        /\ ~BearerShaped(resp.req.header) =>
                /\ resp.status = 401
                /\ resp.code = "UNAUTHORIZED"
                /\ resp.message = "Authentication required"
                /\ resp.note # "handler-ran"
                /\ resp.data = {}
        /\ resp.note = "handler-ran" =>
                /\ BearerShaped(resp.req.header)
                /\ resp.req.header.value[3].kind = "token"
                /\ VerifyAccessToken(resp.req.header.value[3].token, now).ok

\* A header of another scheme that carries an access token verifyAccessToken
\* would accept has been answered as no token.
C23_OtherSchemeRefusedSeen ==
    /\ resp.op = "header-guarded"
    /\ resp.code = "UNAUTHORIZED"
    /\ resp.req.header.present
    /\ Len(resp.req.header.value) = 3
    /\ resp.req.header.value[1] = Word("Basic")
    /\ VerifyAccessToken(resp.req.header.value[3].token, now).ok

\* What a refresh call on `token` made now, with no other request in between,
\* answers: the failure of its checks, else the failure of its insert after
\* its delete, else success.
RefreshOutcome(token) ==
    IF RefreshBranch(token) # NoFailure THEN RefreshBranch(token)
    ELSE IF IssueFailure # NoFailure THEN IssueFailure
    ELSE IF \E r \in tokens :
                /\ r \notin SelectStoredToken(token, token.payload.userId, now)
                /\ r.token = GenerateRefreshToken(token.payload.userId, now).token
    THEN DbUniqueMsg
    ELSE "success"

\* C24: the sweep deletes only rows whose stored expiry is not later than the
\* current time, rows that refresh no longer accepts, and returns how many it
\* deleted; the outcome of every refresh call is the same whether or not the
\* sweep ran before it.
C24_SweepIsHygiene ==
    [][\A subSecond \in BOOLEAN :
        CleanupExpiredTokens(subSecond) =>
            /\ tokens' \subseteq tokens
            /\ \A r \in tokens \ tokens' :
                    /\ r.expiresAt <= now
                    /\ r \notin SelectStoredToken(r.token, r.userId, now)
            /\ \A r \in tokens : r.expiresAt < now => r \notin tokens'
            /\ resp'.req.deleted = Cardinality(tokens) - Cardinality(tokens')
            /\ \A token \in RefreshInputs : RefreshOutcome(token)' = RefreshOutcome(token)
            /\ UNCHANGED <<users, userRoles, proc>>]_vars

\* The sweep has deleted a row and left a row that refresh accepts.
C24_SweepDeletedSeen ==
    /\ resp.op = "sweep"
    /\ resp.req.deleted >= 1
    /\ \E r \in tokens : SelectStoredToken(r.token, r.userId, now) # {}

\* C25: a login with the correct password for an ACTIVE user always succeeds,
\* whatever refresh tokens the user already holds and whenever they were
\* issued (in the same clock second included); it adds exactly one
\* refresh-token row and leaves the other rows unchanged.
C25_LoginAlwaysSucceeds ==
    [][\A email \in Emails, password \in Passwords :
        (/\ Login(email, password)
         /\ EmailExists(email)
         /\ VerifyPassword(password, users[FindByEmail(email)].password)
         /\ users[FindByEmail(email)].status = "ACTIVE")
            => /\ resp'.status = 200
               /\ tokens \subseteq tokens'
               /\ Cardinality(tokens' \ tokens) = 1]_vars

\* C26: logout-all is final under interleaving.  A refresh of u that was in
\* progress when logoutAll(u) completed (it submitted a token that was not
\* revoked when it started and is revoked now) stores no row and returns no
\* token pair, so that once the requests in flight have finished the table
\* holds no row of u that was not put there by a later login or register.
C26_LogoutAllFinal ==
    [][\A p \in Procs :
        (/\ RefreshInsert(p)
         /\ proc[p].req \in revoked
         /\ "revoked" \notin proc[p].flags)
            => /\ resp'.status # 200
               /\ tokens' = tokens]_vars

\* C27: refresh is all-or-nothing.  When a refresh(t) call that found the row
\* of t returns an error, whatever the step that failed, a row holding t is
\* still in the store; a refresh call refused at its checks changes no row.
C27_RefreshAllOrNothing ==
    [][/\ \A p \in Procs :
            (/\ proc[p].pc \in {"ref_delete", "ref_insert"}
             /\ proc'[p].pc = "idle"
             /\ resp'.status # 200)
                => \E r \in tokens' : r.token = proc[p].req
       /\ (resp'.op = "refresh" /\ resp'.status # 200) => tokens' = tokens]_vars

\* C28: a document is deleted only by a request whose authenticated principal
\* is the document's owner: after DELETE /documents/:id and after POST
\* /documents/batch-delete, every document whose ownerId differs from the
\* caller's user id is still present.
C28_OnlyOwnerDeletes ==
    [][\A d \in documents \ documents' :
        /\ resp'.op \in {"document-delete", "documents-batch-delete"}
        /\ d.ownerId = resp'.req.userId]_vars

\* C29: in every reachable state each refresh-token row is consistent with
\* its token: the row's userId is the userId of the token's signed payload and
\* refers to an existing user, the row's expiresAt is the token's signed
\* expiry, and no two rows hold the same token string.
C29_RowsConsistent ==
    /\ \A r \in tokens :
            /\ r.userId = r.token.payload.userId
            /\ r.userId \in DOMAIN users
            /\ r.expiresAt = r.token.payload.exp
            /\ r.token.payload.type = "refresh"
    /\ \A r1 \in tokens, r2 \in tokens : r1.token = r2.token => r1 = r2

\* The insert of a refresh that was in flight while its user was deleted has
\* been refused by the foreign key.
C29_OrphanRowRefusedSeen ==
    /\ resp.op = "refresh"
    /\ resp.message = DbForeignKeyMsg
    /\ tokens # {}

\* C30: registration is all-or-nothing.  When a register call returns an
\* error, whatever the step that failed, no user row it inserted is left: a
\* call refused at the checks or at the insert of the user row changes no user
\* row, and a call that fails after the insert leaves no row under the id it
\* created, so that the same registration can be retried.
C30_RegisterAllOrNothing ==
    [][\A p \in Procs :
        (/\ proc[p].pc \in {"reg_create", "reg_finish"}
         /\ proc'[p].pc = "idle"
         /\ RegisterFailed(resp'))
            => /\ proc[p].pc = "reg_create" => users' = users
               /\ proc[p].pc = "reg_finish" => proc[p].uid \notin DOMAIN users']_vars

====
